---- MODULE Spec2Model ----
(***************************************************************************)
(* A model of baby-browser's rendering core: the markup parser             *)
(* (baby_browser/html.py), the stylesheet parser (baby_browser/css.py) and *)
(* the style cascade (baby_browser/browser.py).                            *)
(*                                                                         *)
(* Text is a sequence of symbols.  The punctuation the scanners test for   *)
(* ("<", ">", "/", " ", "&", ";", "!", ...) is one symbol per character;   *)
(* each tag name the parser compares against ("html", "head", "script",    *)
(* ...) is one atomic symbol, so that <<"<", "html", ">">> is the markup   *)
(* <html>.  The scanners never look inside a name, only compare whole      *)
(* names, test the first character and append characters.                  *)
(***************************************************************************)
EXTENDS Integers, Sequences, FiniteSets, TLC

VARIABLES
    charset,     \* the characters the markup is drawn from
    html,        \* HTMLParser.html: the markup read so far
    peeked,      \* the character html[i + 1] the scan has already looked at
    scan,        \* the locals of HTMLParser.parse
    parser,      \* HTMLParser: nodes (the heap), _unfinished_nodes, root
    hpc,         \* where HTMLParser.parse is: "idle", "scan", "done", "raised"
    result,      \* what HTMLParser.parse returned (a node id, 0 for None)
    source,      \* CSSParser.source
    _index,      \* CSSParser._index
    entry,       \* the method called on the CSSParser: parse_css or parse_rule_body
    cpc,         \* where that call is: "css", "body", "body_exit", "done", "raised"
    selector,    \* parse_css: the selector of the rule whose body is being read
    pairs,       \* parse_rule_body: the declarations read so far
    rules,       \* parse_css: the rules read so far
    default_style_sheet, \* Browser.default_style_sheet
    web,         \* the body served for the href of each stylesheet
    links,       \* load_page: links
    fetching,    \* load_page: how many of the links its loop has been through
    page_rules,  \* load_page: rules
    node_style,  \* Node.style of the nodes style() has been called on
    bpc,         \* where load_page is: "idle", "start", "fetch", "styled", "done",
                 \* "drawn", "raised"
    box,         \* a BlockLayout in inline mode, while its words are placed
    to_render,   \* the words and br elements _render_tree has yet to come to
    lpc,         \* where that layout is: "idle", "render", "done", "raised"
    window_width, \* canvas.winfo_width()
    document,    \* Browser.document: the DocumentLayout and its boxes
    display_list, \* Browser.display_list
    scroll,      \* Browser.scroll
    _previous_window_width, \* Browser._previous_window_width
    canvas,      \* what is drawn on the canvas
    log,         \* what load_page called logger.error with, in order
    net          \* the server, the cache and the call of fetch under way

htmlVars == <<charset, html, peeked, scan, parser, hpc, result>>
cssVars == <<source, _index, entry, cpc, selector, pairs, rules>>
pageVars == <<default_style_sheet, web, links, fetching, page_rules,
              node_style, bpc, log, net>>
layoutVars == <<box, to_render, lpc, window_width, document, display_list, scroll,
                _previous_window_width, canvas>>
vars == <<charset, html, peeked, scan, parser, hpc, result,
          source, _index, entry, cpc, selector, pairs, rules,
          default_style_sheet, web, links, fetching, page_rules,
          node_style, bpc,
          box, to_render, lpc, window_width, document, display_list, scroll,
          _previous_window_width, canvas, log, net>>

-----------------------------------------------------------------------------
(* Bounds *)

MaxHtmlLen == 5
MaxCssLen == 4
MaxRules == 3

-----------------------------------------------------------------------------
(* Sequences *)

Last(s) == s[Len(s)]
Front(s) == SubSeq(s, 1, Len(s) - 1)
Range(s) == {s[i] : i \in 1..Len(s)}
StartsWith(s, c) == Len(s) > 0 /\ s[1] = c
EndsWith(s, c) == Len(s) > 0 /\ s[Len(s)] = c
Contains(s, c) == \E i \in 1..Len(s) : s[i] = c

\* str.split(sep): the pieces of w between the occurrences of sep.
RECURSIVE Split(_, _)
Split(w, sep) ==
    IF ~Contains(w, sep)
    THEN <<w>>
    ELSE LET k == CHOOSE i \in 1..Len(w) :
                    w[i] = sep /\ \A j \in 1..(i - 1) : w[j] # sep
         IN  <<SubSeq(w, 1, k - 1)>> \o Split(SubSeq(w, k + 1, Len(w)), sep)

\* str.split(): the pieces of w between runs of whitespace.
SplitWhitespace(w) == SelectSeq(Split(w, " "), LAMBDA x : x # <<>>)

\* str.lower() on the characters of the model.
LowerChar(c) == CASE c = "A" -> "a" [] c = "B" -> "b" [] OTHER -> c
Lower(w) == [i \in 1..Len(w) |-> LowerChar(w[i])]

\* The sequences of a sequence, one after the other.
RECURSIVE Flatten(_)
Flatten(ss) == IF ss = <<>> THEN <<>> ELSE Head(ss) \o Flatten(Tail(ss))

\* Op(v) with v evaluated once, before Op is entered.
Call(Op(_), v) == CHOOSE out \in {Op(x) : x \in {v}} : TRUE

\* dict[key] = value
SetItem(d, key, value) ==
    [k \in DOMAIN d \cup {key} |-> IF k = key THEN value ELSE d[k]]

-----------------------------------------------------------------------------
(* baby_browser/html.py *)

\* Markup that exercises the tag structure, and markup that exercises text,
\* entities, attributes and comments.
StructureChars == {"<", ">", "/", "html", "head", "body", "script", "link", "p"}
TextChars == {"<", ">", "/", " ", "&", ";", "!", "script", "p"}
HtmlAlphabets == {StructureChars, TextChars}

EOF == "EOF"
None == 0
NoTag == <<"None">>

SELF_CLOSING_TAGS ==
    {<<"area">>, <<"base">>, <<"br">>, <<"col">>, <<"embed">>, <<"hr">>,
     <<"img">>, <<"input">>, <<"link">>, <<"meta">>, <<"param">>,
     <<"source">>, <<"track">>, <<"wbr">>}

HEAD_TAGS ==
    {<<"base">>, <<"basefont">>, <<"bgsound">>, <<"noscript">>, <<"link">>,
     <<"meta">>, <<"title">>, <<"style">>, <<"script">>}

\* html.unescape("&" + value + ";"): a known reference is replaced, an
\* unknown one is left as it was written.
_convert_html_entity(value) ==
    CASE value = <<"amp">> -> <<"&">>
      [] value = <<"lt">> -> <<"<">>
      [] value = <<"gt">> -> <<">">>
      [] OTHER -> <<"&">> \o value \o <<";">>

\* str.isspace(): not empty and whitespace only.
IsSpace(text) == Len(text) > 0 /\ \A i \in 1..Len(text) : text[i] = " "

\* The value of an attribute written without one.
NoValue == <<"None">>

_unquote_string(value) ==
    IF \/ StartsWith(value, "\"") /\ EndsWith(value, "\"")
       \/ StartsWith(value, "'") /\ EndsWith(value, "'")
    THEN SubSeq(value, 2, Len(value) - 1)
    ELSE value

RECURSIVE AttributesOf(_)
AttributesOf(pieces) ==
    IF pieces = <<>> THEN <<>>
    ELSE LET pair == Last(pieces)
             key == Head(Split(pair, "="))
         IN  Call(LAMBDA attributes :
                    IF Contains(pair, "=")
                    THEN SetItem(attributes, Lower(key),
                             _unquote_string(SubSeq(pair, Len(key) + 2, Len(pair))))
                    ELSE SetItem(attributes, Lower(pair), NoValue),
                  AttributesOf(Front(pieces)))

_parse_tag_attributes(raw_attributes) == AttributesOf(SplitWhitespace(raw_attributes))

ElementNode(tag, parent, attributes) ==
    [kind |-> "element", tag |-> tag, text |-> <<>>, attributes |-> attributes,
     parent |-> parent, children |-> <<>>]

TextNode(text, parent) ==
    [kind |-> "text", tag |-> <<>>, text |-> text, attributes |-> <<>>,
     parent |-> parent, children |-> <<>>]

NewParser == [nodes |-> <<>>, unfinished |-> <<>>, root |-> None]

_get_last_seen_node(p) ==
    IF Len(p.unfinished) > 0 THEN Last(p.unfinished) ELSE p.root

\* parent.children.append(node)
AppendChild(nodes, parent, node) ==
    [nodes EXCEPT ![parent].children = Append(@, node)]

\* PopAndAttach with the parent looked up before the pop.
PopAndAttach_ParentBeforePop(p) ==
    LET node == Last(p.unfinished)
        q == [p EXCEPT !.unfinished = Front(p.unfinished)]
        parent == _get_last_seen_node(p)
    IN  IF parent # None
        THEN [q EXCEPT !.nodes = AppendChild(q.nodes, parent, node)]
        ELSE [q EXCEPT !.root = node]

\* The body of a closing tag in _add_tag and one round of _finish: pop the
\* last unfinished node and attach it to the node below, or make it the root.
PopAndAttach(p) ==
    LET node == Last(p.unfinished)
        q == [p EXCEPT !.unfinished = Front(p.unfinished)]
        parent == _get_last_seen_node(q)
    IN  IF parent # None
        THEN [q EXCEPT !.nodes = AppendChild(q.nodes, parent, node)]
        ELSE [q EXCEPT !.root = node]

\* ImplicitOpen that never opens a head.
ImplicitOpen_AlwaysBody(tag_name) == <<"body">>

\* The element _handle_implicit_tags opens when only html is unfinished.
ImplicitOpen(tag_name) ==
    IF tag_name \in HEAD_TAGS THEN <<"head">> ELSE <<"body">>

RECURSIVE _add_tag(_, _, _)
RECURSIVE _handle_implicit_tags(_, _)

_handle_implicit_tags(p, tag_name) ==
    IF Len(p.unfinished) = 0 /\ tag_name # <<"html">>
    THEN _handle_implicit_tags(_add_tag(p, <<"html">>, <<>>), tag_name)
    ELSE IF /\ Len(p.unfinished) = 1
            /\ p.nodes[p.unfinished[1]].tag = <<"html">>
            /\ tag_name \notin {<<"head">>, <<"body">>, <<"/", "html">>}
    THEN _handle_implicit_tags(_add_tag(p, ImplicitOpen(tag_name), <<>>), tag_name)
    ELSE IF /\ Len(p.unfinished) = 2
            /\ p.nodes[p.unfinished[1]].tag = <<"html">>
            /\ p.nodes[p.unfinished[2]].tag = <<"head">>
            /\ tag_name \notin ({<<"/", "head">>} \cup HEAD_TAGS)
    THEN _handle_implicit_tags(_add_tag(p, <<"/", "head">>, <<>>), tag_name)
    ELSE p

_add_tag(p0, tag_name, attributes) ==
    IF StartsWith(tag_name, "!")
    THEN p0
    ELSE
      LET p == _handle_implicit_tags(p0, tag_name)
          parent == _get_last_seen_node(p)
          id == Len(p.nodes) + 1
          node == ElementNode(tag_name, parent, _parse_tag_attributes(attributes))
      IN  IF StartsWith(tag_name, "/")
          THEN IF Len(p.unfinished) = 0
               THEN p      \* IndexError: a closing tag without an opening
               ELSE PopAndAttach(p)
          ELSE IF tag_name \in SELF_CLOSING_TAGS
          THEN IF parent # None
               THEN [p EXCEPT !.nodes = AppendChild(Append(p.nodes, node), parent, id)]
               ELSE [p EXCEPT !.nodes = Append(p.nodes, node)]
          ELSE [p EXCEPT !.nodes = Append(p.nodes, node),
                         !.unfinished = Append(p.unfinished, id)]

_add_text(p0, text) ==
    IF IsSpace(text)
    THEN p0
    ELSE
      LET p == _handle_implicit_tags(p0, NoTag)
          parent == _get_last_seen_node(p)
          id == Len(p.nodes) + 1
          node == TextNode(text, parent)
      IN  IF parent # None
          THEN [p EXCEPT !.nodes = AppendChild(Append(p.nodes, node), parent, id)]
          ELSE [p EXCEPT !.nodes = Append(p.nodes, node), !.root = id]

\* _finish_loop with an if for the while: one round only.
_finish_loop_once(p) ==
    IF Len(p.unfinished) > 0 THEN PopAndAttach(p) ELSE p

\* The loop of _finish: close what is still unfinished, last opened first.
RECURSIVE _finish_loop(_)
_finish_loop(p) ==
    IF Len(p.unfinished) > 0 THEN _finish_loop(PopAndAttach(p)) ELSE p

\* The value _finish returns: the last node it popped, self.root if it
\* popped none.
_finish_result(p) ==
    IF Len(p.unfinished) > 0 THEN p.unfinished[1] ELSE p.root

\* The end of parse: the text still pending becomes a node.
_flush_pending(s, p) ==
    IF ~s.in_tag /\ Len(s.text) > 0 THEN _add_text(p, s.text) ELSE p

NewScan ==
    [text |-> <<>>, in_tag |-> FALSE, in_tag_name |-> FALSE, in_entity |-> FALSE,
     tag_name |-> <<>>, tag_attributes |-> <<>>, entity_content |-> <<>>]

\* One round of the loop of parse on the character c, where nxt is the
\* character after it ("/" is all the scan asks of it).
ScanStep(s, p, c, nxt) ==
    IF c = "<" /\ (s.tag_name # <<"script">> \/ nxt = "/")
    THEN [scan |-> [s EXCEPT !.in_tag = TRUE, !.in_tag_name = TRUE,
                             !.tag_name = <<>>, !.tag_attributes = <<>>,
                             !.text = <<>>],
          parser |-> IF Len(s.text) > 0 THEN _add_text(p, s.text) ELSE p]
    ELSE IF c = ">"
    THEN [scan |-> [s EXCEPT !.in_tag = FALSE, !.in_tag_name = FALSE,
                             !.text = <<>>],
          parser |-> _add_tag(p, s.tag_name, s.tag_attributes)]
    ELSE IF ~s.in_tag /\ c = "&" /\ s.tag_name # <<"script">>
    THEN [scan |-> [s EXCEPT !.in_entity = TRUE, !.entity_content = <<>>],
          parser |-> p]
    ELSE IF s.in_entity
    THEN IF c = ";"
         THEN [scan |-> [s EXCEPT !.in_entity = FALSE,
                                  !.text = @ \o _convert_html_entity(s.entity_content)],
               parser |-> p]
         ELSE [scan |-> [s EXCEPT !.entity_content = Append(@, LowerChar(c))], parser |-> p]
    ELSE IF s.in_tag
    THEN IF s.in_tag_name
         THEN IF c = " "
              THEN [scan |-> [s EXCEPT !.in_tag_name = FALSE], parser |-> p]
              ELSE [scan |-> [s EXCEPT !.tag_name = Append(@, LowerChar(c))], parser |-> p]
         ELSE [scan |-> [s EXCEPT !.tag_attributes = Append(@, c)], parser |-> p]
    ELSE [scan |-> [s EXCEPT !.text = Append(@, c)], parser |-> p]

\* The scan evaluates html[i + 1] only when c is "<" and the tag name is
\* "script".
LooksAhead(s, c) == c = "<" /\ s.tag_name = <<"script">>

\* HTMLParser(text).parse() from its character i on, run to its end: the
\* parser it leaves, the node it returns, and whether it raised IndexError.
RECURSIVE ParseFrom(_, _, _, _)
ParseFrom(text, i, s, p) ==
    IF i > Len(text)
    THEN [raised |-> FALSE,
          parser |-> _finish_loop(_flush_pending(s, p)),
          result |-> _finish_result(_flush_pending(s, p))]
    ELSE IF LooksAhead(s, text[i]) /\ i = Len(text)
    THEN [raised |-> TRUE, parser |-> p, result |-> None]
    ELSE Call(LAMBDA r : ParseFrom(text, i + 1, r.scan, r.parser),
              ScanStep(s, p, text[i], IF i < Len(text) THEN text[i + 1] ELSE EOF))

parse(text) == ParseFrom(text, 1, NewScan, NewParser)

\* No stylesheet is being parsed.
CssIdle ==
    /\ source = <<>>
    /\ _index = 0
    /\ entry = "none"
    /\ cpc = "idle"
    /\ selector = <<>>
    /\ pairs = <<>>
    /\ rules = <<>>

\* No page is being loaded.
\* No call of fetch was made.
NetIdle == <<>>

PageIdle ==
    /\ default_style_sheet = <<>>
    /\ web = <<>>
    /\ links = <<>>
    /\ fetching = 0
    /\ page_rules = <<>>
    /\ node_style = <<>>
    /\ bpc = "idle"
    /\ log = <<>>
    /\ net = NetIdle

\* Browser.__init__ has run; nothing is laid out.
NoDocument == <<>>
LayoutIdle ==
    /\ box = <<>>
    /\ to_render = <<>>
    /\ lpc = "idle"
    /\ window_width = 800
    /\ document = NoDocument
    /\ display_list = <<>>
    /\ scroll = 0
    /\ _previous_window_width = -1
    /\ canvas = <<>>

InitHTML ==
    /\ CssIdle
    /\ PageIdle
    /\ LayoutIdle
    /\ charset \in HtmlAlphabets
    /\ html = <<>>
    /\ peeked = EOF
    /\ scan = NewScan
    /\ parser = NewParser
    /\ hpc = "scan"
    /\ result = None

\* parse, one character that is not the last of the markup, or that is
\* handled without a look at the next one.
ScanChar(c) ==
    /\ hpc = "scan"
    /\ Len(html) < MaxHtmlLen
    /\ peeked \in {EOF, c}
    /\ html' = Append(html, c)
    /\ \E nxt \in IF LooksAhead(scan, c) THEN charset ELSE {EOF} :
         LET r == ScanStep(scan, parser, c, nxt)
         IN  /\ scan' = r.scan
             /\ parser' = r.parser
             /\ peeked' = nxt
    /\ UNCHANGED <<charset, hpc, result>>
    /\ UNCHANGED cssVars
    /\ UNCHANGED pageVars
    /\ UNCHANGED layoutVars

\* parse, a "<" that is the last character of the markup while the tag name
\* is "script": html[i + 1] raises IndexError.
ScanLastChar(c) ==
    /\ hpc = "scan"
    /\ Len(html) < MaxHtmlLen
    /\ peeked \in {EOF, c}
    /\ LooksAhead(scan, c)
    /\ html' = Append(html, c)
    /\ peeked' = EOF
    /\ hpc' = "raised"
    /\ UNCHANGED <<charset, scan, parser, result>>
    /\ UNCHANGED cssVars
    /\ UNCHANGED pageVars
    /\ UNCHANGED layoutVars

\* parse, after the last character: the pending text, then _finish.
Finish ==
    /\ hpc = "scan"
    /\ peeked = EOF
    /\ LET p == _flush_pending(scan, parser)
       IN  /\ parser' = _finish_loop(p)
           /\ result' = _finish_result(p)
    /\ hpc' = "done"
    /\ UNCHANGED <<charset, html, peeked, scan>>
    /\ UNCHANGED cssVars
    /\ UNCHANGED pageVars
    /\ UNCHANGED layoutVars

NextHTML ==
    \/ \E c \in charset : ScanChar(c)
    \/ \E c \in charset : ScanLastChar(c)
    \/ Finish

SpecHTML == InitHTML /\ [][NextHTML]_vars

-----------------------------------------------------------------------------
(* baby_browser/css.py *)

CssAlphabet == {"a", "b", " ", "{", "}", ":", ";"}

\* str.isalnum() and str.isspace() on the characters of the model.
Letters == {"a", "b", "c", "e", "m", "p", "x", "y", "A", "B"}
Digits == {"0", "1", "2", "3", "4", "5", "6", "7", "8", "9"}
Names == {"html", "body", "div", "color", "red", "green", "blue", "font-size",
          "background-color", "transparent", "width", "height"}
IsAlnum(c) == c \in Letters \cup Digits \cup Names
IsSpaceChar(c) == c = " "

\* str.lstrip("."), then str.strip()
RECURSIVE LStrip(_, _)
LStrip(w, c) == IF StartsWith(w, c) THEN LStrip(Tail(w), c) ELSE w
RECURSIVE RStripSpace(_)
RStripSpace(w) ==
    IF Len(w) > 0 /\ IsSpaceChar(Last(w)) THEN RStripSpace(Front(w)) ELSE w
Strip(w) == RStripSpace(LStrip(w, " "))

\* The selectors.  parts holds the selectors of a sequence and the ancestor
\* and the descendant of a descendant selector.
TagSelector(tag) == [type |-> "tag", name |-> tag, parts |-> <<>>]
ClassSelector(class_name) ==
    [type |-> "class", name |-> Strip(LStrip(class_name, ".")), parts |-> <<>>]
SequenceSelector(selectors) == [type |-> "sequence", name |-> <<>>, parts |-> selectors]
DescendantSelector(ancestor, descendant) ==
    [type |-> "descendant", name |-> <<>>, parts |-> <<ancestor, descendant>>]

RECURSIVE SumOf(_)
SumOf(ns) == IF ns = <<>> THEN 0 ELSE Head(ns) + SumOf(Tail(ns))

\* CSSSelector.priority
TagPriority == 1
ClassPriority == 10
RECURSIVE priority(_)
priority(sel) ==
    CASE sel.type = "tag" -> TagPriority
      [] sel.type = "class" -> ClassPriority
      [] sel.type = "sequence" ->
           SumOf([i \in 1..Len(sel.parts) |-> priority(sel.parts[i])])
      [] sel.type = "descendant" -> priority(sel.parts[1]) + priority(sel.parts[2])

\* The parsing methods take the source and _index and give back the new
\* _index, ok = FALSE when they raise ParsingError (index is then _index at
\* the raise), and their value.
_is_not_finished(src, i) == i < Len(src)
_char(src, i) == src[i + 1]

RECURSIVE _whitespace(_, _)
_whitespace(src, i) ==
    IF _is_not_finished(src, i) /\ IsSpaceChar(_char(src, i))
    THEN _whitespace(src, i + 1)
    ELSE i

IsWordChar(c) == IsAlnum(c) \/ c \in {"#", "-", ".", "%"}

RECURSIVE WordEnd(_, _)
WordEnd(src, i) ==
    IF _is_not_finished(src, i) /\ IsWordChar(_char(src, i))
    THEN WordEnd(src, i + 1)
    ELSE i

_word(src, i) ==
    LET j == WordEnd(src, i)
    IN  IF ~(j > i)
        THEN [ok |-> FALSE, index |-> j, value |-> <<>>]
        ELSE [ok |-> TRUE, index |-> j, value |-> SubSeq(src, i + 1, j)]

_literal(src, i, literal) ==
    IF ~(_is_not_finished(src, i) /\ _char(src, i) = literal)
    THEN [ok |-> FALSE, index |-> i]
    ELSE [ok |-> TRUE, index |-> i + 1]

_pair(src, i) ==
    LET prop == _word(src, i)
        colon == _literal(src, _whitespace(src, prop.index), ":")
        val == _word(src, _whitespace(src, colon.index))
    IN  IF ~prop.ok THEN [ok |-> FALSE, index |-> prop.index, prop |-> <<>>, val |-> <<>>]
        ELSE IF ~colon.ok THEN [ok |-> FALSE, index |-> colon.index, prop |-> <<>>, val |-> <<>>]
        ELSE IF ~val.ok THEN [ok |-> FALSE, index |-> val.index, prop |-> <<>>, val |-> <<>>]
        ELSE [ok |-> TRUE, index |-> val.index, prop |-> Lower(prop.value), val |-> val.value]

NoChar == "None"

RECURSIVE _ignore_until(_, _, _)
_ignore_until(src, i, chars) ==
    IF ~_is_not_finished(src, i) THEN [index |-> i, why |-> NoChar]
    ELSE IF _char(src, i) \in chars THEN [index |-> i, why |-> _char(src, i)]
    ELSE _ignore_until(src, i + 1, chars)

\* BodyRecover without the self._literal(";") that steps over the ";".
BodyRecover_NoConsume(src, i, d) ==
    LET skip == _ignore_until(src, i, {";", "}"})
    IN  IF skip.why = ";"
        THEN [raised |-> FALSE, again |-> TRUE, pairs |-> d, index |-> skip.index]
        ELSE [raised |-> FALSE, again |-> FALSE, pairs |-> d, index |-> skip.index]

\* The except clause of parse_rule_body.  again: the loop goes on.
BodyRecover(src, i, d) ==
    LET skip == _ignore_until(src, i, {";", "}"})
        semi == _literal(src, skip.index, ";")
    IN  IF skip.why = ";"
        THEN [raised |-> ~semi.ok, again |-> TRUE, pairs |-> d,
              index |-> _whitespace(src, semi.index)]
        ELSE [raised |-> FALSE, again |-> FALSE, pairs |-> d, index |-> skip.index]

\* BodyRound that records a declaration only once its ";" is read.
BodyRound_RecordAfterSemicolon(src, i, d) ==
    LET pair == _pair(src, i)
        d1 == SetItem(d, pair.prop, pair.val)
        semi == _literal(src, _whitespace(src, pair.index), ";")
    IN  IF ~pair.ok THEN BodyRecover(src, pair.index, d)
        ELSE IF ~semi.ok THEN BodyRecover(src, semi.index, d)
        ELSE [raised |-> FALSE, again |-> TRUE, pairs |-> d1,
              index |-> _whitespace(src, semi.index)]

\* One round of the loop of parse_rule_body.
BodyRound(src, i, d) ==
    LET pair == _pair(src, i)
        d1 == SetItem(d, pair.prop, pair.val)
        semi == _literal(src, _whitespace(src, pair.index), ";")
    IN  IF ~pair.ok THEN BodyRecover(src, pair.index, d)
        ELSE IF ~semi.ok THEN BodyRecover(src, semi.index, d1)
        ELSE [raised |-> FALSE, again |-> TRUE, pairs |-> d1,
              index |-> _whitespace(src, semi.index)]

\* The selector _selector makes of one word.
SimpleSelector(word) ==
    IF StartsWith(word, ".") THEN ClassSelector(word)
    ELSE IF \E i \in 1..Len(word) : word[i] = "."
    THEN LET parts == Split(word, ".")
         IN  SequenceSelector(
                 <<TagSelector(parts[1])>> \o
                 [k \in 1..(Len(parts) - 1) |-> ClassSelector(parts[k + 1])])
    ELSE TagSelector(word)

\* The loop of _selector: the words up to "{", each a descendant of what
\* was read before it.
RECURSIVE SelectorLoop(_, _, _)
SelectorLoop(src, i, out) ==
    IF _is_not_finished(src, i) /\ _char(src, i) # "{"
    THEN LET word == _word(src, i)
         IN  IF ~word.ok
             THEN [ok |-> FALSE, index |-> word.index, value |-> out]
             ELSE SelectorLoop(src, _whitespace(src, word.index),
                      DescendantSelector(out, SimpleSelector(Lower(word.value))))
    ELSE [ok |-> TRUE, index |-> i, value |-> out]

_selector(src, i) ==
    LET word == _word(src, i)
    IN  IF ~word.ok
        THEN [ok |-> FALSE, index |-> word.index, value |-> <<>>]
        ELSE SelectorLoop(src, _whitespace(src, word.index),
                          SimpleSelector(Lower(word.value)))

\* RuleRecover that gives up at the first malformed rule.
RuleRecover_Abort(src, i) ==
    [raised |-> FALSE, again |-> FALSE, index |-> _ignore_until(src, i, {"}"}).index]

\* The except clause of parse_css.
RuleRecover(src, i) ==
    LET skip == _ignore_until(src, i, {"}"})
        brace == _literal(src, skip.index, "}")
    IN  IF skip.why = "}"
        THEN [raised |-> ~brace.ok, again |-> TRUE,
              index |-> _whitespace(src, brace.index)]
        ELSE [raised |-> FALSE, again |-> FALSE, index |-> skip.index]

\* parse_css, one round of its loop up to the call of parse_rule_body: the
\* selector and "{", or the recovery from their failure.
CssRoundResult(src, i) ==
    LET sel == _selector(src, _whitespace(src, i))
        brace == _literal(src, sel.index, "{")
        recover == RuleRecover(src, IF sel.ok THEN brace.index ELSE sel.index)
    IN  IF sel.ok /\ brace.ok
        THEN [cpc |-> "body", index |-> _whitespace(src, brace.index),
              selector |-> sel.value]
        ELSE [cpc |-> IF recover.raised THEN "raised"
                      ELSE IF recover.again THEN "css" ELSE "done",
              index |-> recover.index, selector |-> <<>>]

\* parse_css, the rest of a round once parse_rule_body has returned body:
\* "}", the new rule and the whitespace, or the recovery.
CssRoundEnd(src, i, sel, body, rs) ==
    LET brace == _literal(src, i, "}")
        recover == RuleRecover(src, brace.index)
    IN  IF brace.ok
        THEN [cpc |-> "css", index |-> _whitespace(src, brace.index),
              rules |-> Append(rs, [selector |-> sel, body |-> body])]
        ELSE [cpc |-> IF recover.raised THEN "raised"
                      ELSE IF recover.again THEN "css" ELSE "done",
              index |-> recover.index, rules |-> rs]

\* The condition of the loop of parse_rule_body.
BodyLoopCondition(src, i) == _is_not_finished(src, i) /\ _char(src, i) # "}"

\* CSSParser(src).parse_rule_body() from _index i with the pairs d, run to
\* its end.
RECURSIVE BodyFrom(_, _, _)
BodyFrom(src, i, d) ==
    IF BodyLoopCondition(src, i)
    THEN Call(LAMBDA r : IF r.raised \/ ~r.again
                         THEN [raised |-> r.raised, index |-> r.index, pairs |-> r.pairs]
                         ELSE BodyFrom(src, r.index, r.pairs),
              BodyRound(src, i, d))
    ELSE [raised |-> FALSE, index |-> i, pairs |-> d]

parse_rule_body(src) == BodyFrom(src, 0, <<>>)

\* CSSParser(src).parse_css() from _index i with the rules rs, run to its
\* end.
RECURSIVE CssFrom(_, _, _)
CssFrom(src, i, rs) ==
    IF _is_not_finished(src, i)
    THEN Call(LAMBDA head :
           IF head.cpc = "css" THEN CssFrom(src, head.index, rs)
           ELSE IF head.cpc # "body"
           THEN [raised |-> head.cpc = "raised", index |-> head.index, rules |-> rs]
           ELSE Call(LAMBDA body :
                  IF body.raised
                  THEN [raised |-> TRUE, index |-> body.index, rules |-> rs]
                  ELSE Call(LAMBDA end :
                         IF end.cpc = "css" THEN CssFrom(src, end.index, end.rules)
                         ELSE [raised |-> end.cpc = "raised", index |-> end.index,
                               rules |-> end.rules],
                         CssRoundEnd(src, body.index, head.selector, body.pairs, rs)),
                  BodyFrom(src, head.index, <<>>)),
           CssRoundResult(src, i))
    ELSE [raised |-> FALSE, index |-> i, rules |-> rs]

parse_css(src) == CssFrom(src, 0, <<>>)

\* The stylesheets parsed: every text of at most MaxCssLen characters, alone
\* or followed by a rule; the declaration blocks parsed: every such text,
\* alone or followed by a declaration.
CssTexts == UNION {[1..n -> CssAlphabet] : n \in 0..MaxCssLen}
RuleText == <<"a", "{", "a", ":", "b", "}">>
DeclarationText == <<"b", ":", "a", ";">>
Sources(e) ==
    {x \o y : x \in CssTexts,
              y \in {<<>>, IF e = "parse_css" THEN RuleText ELSE DeclarationText}}

InitCSS ==
    /\ PageIdle
    /\ LayoutIdle
    /\ charset = {}
    /\ html = <<>>
    /\ peeked = EOF
    /\ scan = NewScan
    /\ parser = NewParser
    /\ hpc = "idle"
    /\ result = None
    /\ entry \in {"parse_css", "parse_rule_body"}
    /\ source \in Sources(entry)
    /\ _index = 0
    /\ cpc = IF entry = "parse_css" THEN "css" ELSE "body"
    /\ selector = <<>>
    /\ pairs = <<>>
    /\ rules = <<>>

\* parse_css: one round of its loop, up to the call of parse_rule_body.
CssRound ==
    /\ cpc = "css"
    /\ _is_not_finished(source, _index)
    /\ LET r == CssRoundResult(source, _index)
       IN  /\ _index' = r.index
           /\ cpc' = r.cpc
           /\ selector' = r.selector
           /\ pairs' = <<>>
    /\ UNCHANGED <<source, entry, rules>>
    /\ UNCHANGED htmlVars
    /\ UNCHANGED pageVars
    /\ UNCHANGED layoutVars

\* parse_css: the end of its loop, the rules are returned.
CssReturn ==
    /\ cpc = "css"
    /\ ~_is_not_finished(source, _index)
    /\ cpc' = "done"
    /\ UNCHANGED <<source, _index, entry, selector, pairs, rules>>
    /\ UNCHANGED htmlVars
    /\ UNCHANGED pageVars
    /\ UNCHANGED layoutVars

\* parse_rule_body: one round of its loop.
BodyLoop ==
    /\ cpc = "body"
    /\ BodyLoopCondition(source, _index)
    /\ LET r == BodyRound(source, _index, pairs)
       IN  /\ _index' = r.index
           /\ pairs' = r.pairs
           /\ cpc' = IF r.raised THEN "raised"
                     ELSE IF r.again THEN "body" ELSE "body_exit"
    /\ UNCHANGED <<source, entry, selector, rules>>
    /\ UNCHANGED htmlVars
    /\ UNCHANGED pageVars
    /\ UNCHANGED layoutVars

\* parse_rule_body returns its pairs; in parse_css the round goes on.
BodyReturn ==
    /\ \/ cpc = "body_exit"
       \/ cpc = "body" /\ ~BodyLoopCondition(source, _index)
    /\ IF entry = "parse_rule_body"
       THEN /\ cpc' = "done"
            /\ UNCHANGED <<_index, rules>>
       ELSE LET r == CssRoundEnd(source, _index, selector, pairs, rules)
            IN  /\ _index' = r.index
                /\ cpc' = r.cpc
                /\ rules' = r.rules
    /\ UNCHANGED <<source, entry, selector, pairs>>
    /\ UNCHANGED htmlVars
    /\ UNCHANGED pageVars
    /\ UNCHANGED layoutVars

NextCSS == CssRound \/ CssReturn \/ BodyLoop \/ BodyReturn

SpecCSS == InitCSS /\ [][NextCSS]_vars

-----------------------------------------------------------------------------
(* baby_browser/browser.py: the cascade *)

INHERITED_PROPERTIES ==
    [k \in {<<"font-family">>, <<"font-size">>, <<"font-style">>,
            <<"font-weight">>, <<"color">>} |->
        CASE k = <<"font-family">> -> <<"Times">>
          [] k = <<"font-size">> -> <<"1", "6", "p", "x">>
          [] k = <<"color">> -> <<"black">>
          [] OTHER -> <<"normal">>]

\* dict.get(key)
Get(d, key) == IF key \in DOMAIN d THEN d[key] ELSE NoValue

\* value or ""
OrEmpty(value) == IF value = NoValue THEN <<>> ELSE value

\* dict.update(other)
Update(d, other) ==
    [k \in DOMAIN d \cup DOMAIN other |-> IF k \in DOMAIN other THEN other[k] ELSE d[k]]

\* Element.classes: the names in the class attribute.
classes(node) == Range(SplitWhitespace(OrEmpty(Get(node.attributes, <<"class">>))))

\* CSSSelector.matches
RECURSIVE matches(_, _, _)
RECURSIVE AncestorMatches(_, _, _)
matches(sel, nodes, n) ==
    CASE sel.type = "tag" ->
           nodes[n].kind = "element" /\ sel.name = nodes[n].tag
      [] sel.type = "class" ->
           nodes[n].kind = "element" /\ sel.name \in classes(nodes[n])
      [] sel.type = "sequence" ->
           \A i \in 1..Len(sel.parts) : matches(sel.parts[i], nodes, n)
      [] sel.type = "descendant" ->
           matches(sel.parts[2], nodes, n) /\ AncestorMatches(sel.parts[1], nodes, n)

\* The while loop of DescendantSelector.matches.
AncestorMatches(sel, nodes, n) ==
    /\ nodes[n].parent # None
    /\ \/ matches(sel, nodes, nodes[n].parent)
       \/ AncestorMatches(sel, nodes, nodes[n].parent)

\* utils.tree_to_list
RECURSIVE tree_to_list(_, _)
tree_to_list(nodes, n) ==
    <<n>> \o Flatten([i \in 1..Len(nodes[n].children) |->
                        tree_to_list(nodes, nodes[n].children[i])])

\* load_page: the href of every stylesheet link of the tree, in tree order.
Links(p) ==
    LET IsStylesheet(n) ==
            /\ p.nodes[n].kind = "element"
            /\ p.nodes[n].tag = <<"link">>
            /\ Get(p.nodes[n].attributes, <<"rel">>) = <<"stylesheet">>
            /\ <<"href">> \in DOMAIN p.nodes[n].attributes
        found == SelectSeq(tree_to_list(p.nodes, p.root), IsStylesheet)
    IN  [i \in 1..Len(found) |-> OrEmpty(Get(p.nodes[found[i]].attributes, <<"href">>))]

cascade_priority(rule) == priority(rule.selector)

\* InsertByKey that puts an item before the items of the same key.
InsertByKey_BeforeEqual(sorted_items, item) ==
    LET before == SelectSeq(sorted_items,
                      LAMBDA x : cascade_priority(x) < cascade_priority(item))
    IN  before \o <<item>> \o SubSeq(sorted_items, Len(before) + 1, Len(sorted_items))

\* Where a stable sort puts the next item of its input among those it has
\* sorted: after the items whose key is not larger.
InsertByKey(sorted_items, item) ==
    LET before == SelectSeq(sorted_items,
                      LAMBDA x : cascade_priority(x) <= cascade_priority(item))
    IN  before \o <<item>> \o SubSeq(sorted_items, Len(before) + 1, Len(sorted_items))

\* sorted that leaves the list as it is.
sorted_Unsorted(items) == items

\* sorted(items, key=cascade_priority): ascending and stable.
RECURSIVE sorted(_)
sorted(items) ==
    IF items = <<>> THEN <<>>
    ELSE Call(LAMBDA sorted_items : InsertByKey(sorted_items, Last(items)),
              sorted(Front(items)))

\* The number a run of digits denotes.
RECURSIVE DigitsValue(_)
DigitsValue(ds) ==
    IF ds = <<>> THEN 0
    ELSE 10 * DigitsValue(Front(ds)) + (CHOOSE n \in 0..9 : ToString(n) = Last(ds))

\* The digits of a natural number.
RECURSIVE ToDigits(_)
ToDigits(n) ==
    IF n < 10 THEN <<ToString(n)>> ELSE ToDigits(n \div 10) \o <<ToString(n % 10)>>

RECURSIVE StripZeros(_)
StripZeros(ds) ==
    IF Len(ds) > 1 /\ Last(ds) = "0" THEN StripZeros(Front(ds)) ELSE ds

\* float(text): the number in ten-thousandths, ok = FALSE where float raises
\* ValueError.  Texts are digits with at most one "." and at most four
\* digits after it.
float(text) ==
    LET parts == Split(text, ".")
        whole == parts[1]
        frac == IF Len(parts) > 1 THEN parts[2] ELSE <<>>
        padded == frac \o SubSeq(<<"0", "0", "0", "0">>, 1, 4 - Len(frac))
    IN  IF \/ Len(parts) > 2
           \/ Len(whole) + Len(frac) = 0
           \/ Len(frac) > 4
           \/ \E i \in 1..Len(whole) : whole[i] \notin Digits
           \/ \E i \in 1..Len(frac) : frac[i] \notin Digits
        THEN [ok |-> FALSE, value |-> 0]
        ELSE [ok |-> TRUE, value |-> DigitsValue(whole) * 10000 + DigitsValue(padded)]

\* str(x) of the float x given in ten-thousandths: at least one digit after
\* the point, no trailing zeros.
FormatFloat(x) ==
    ToDigits(x \div 10000) \o <<".">> \o StripZeros(Tail(ToDigits(10000 + (x % 10000))))

\* A resolution that takes every percentage of the root default instead of
\* the parent's size.
ResolveFontSize_OfRootDefault(node_style_map, parent_font_size) ==
    LET font_size == node_style_map[<<"font-size">>]
        node_percentage == float(Front(font_size))
    IN  IF ~EndsWith(font_size, "%")
        THEN [raised |-> FALSE, style |-> node_style_map]
        ELSE IF ~node_percentage.ok
        THEN [raised |-> TRUE, style |-> node_style_map]
        ELSE [raised |-> FALSE,
              style |-> SetItem(node_style_map, <<"font-size">>,
                            FormatFloat((1600 * (node_percentage.value \div 100)) \div 100)
                                \o <<"p", "x">>)]

\* style: a font-size in percent becomes the px value it denotes.  The
\* product is exact for sizes and percentages of at most two decimals.
ResolveFontSize(node_style_map, parent_font_size) ==
    LET font_size == node_style_map[<<"font-size">>]
        node_percentage == float(Front(font_size))
        parent_px == float(SubSeq(parent_font_size, 1, Len(parent_font_size) - 2))
    IN  IF ~EndsWith(font_size, "%")
        THEN [raised |-> FALSE, style |-> node_style_map]
        ELSE IF ~node_percentage.ok \/ ~parent_px.ok
        THEN [raised |-> TRUE, style |-> node_style_map]
        ELSE [raised |-> FALSE,
              style |-> SetItem(node_style_map, <<"font-size">>,
                            FormatFloat(((parent_px.value \div 100)
                                          * (node_percentage.value \div 100)) \div 100)
                                \o <<"p", "x">>)]

\* style: the matching rules laid over a style map, in list order.
RECURSIVE ApplyRules(_, _, _, _)
ApplyRules(node_style_map, rs, nodes, n) ==
    IF rs = <<>> THEN node_style_map
    ELSE Call(LAMBDA overlaid : ApplyRules(overlaid, Tail(rs), nodes, n),
              IF matches(Head(rs).selector, nodes, n)
              THEN Update(node_style_map, Head(rs).body)
              ELSE node_style_map)

\* style(node, rules) on node n and, through StyleChildren, on the nodes
\* below it; styles holds Node.style of the nodes styled so far.
RECURSIVE style(_, _, _, _)
RECURSIVE StyleChildren(_, _, _, _)
\* A style that seeds every node from the defaults, never from its parent.
style_WithoutInheritance(nodes, n, rs, styles) ==
    LET parent == nodes[n].parent
        ruled == ApplyRules(INHERITED_PROPERTIES, rs, nodes, n)
        inline == IF /\ nodes[n].kind = "element"
                     /\ <<"style">> \in DOMAIN nodes[n].attributes
                  THEN Update(ruled,
                           parse_rule_body(OrEmpty(nodes[n].attributes[<<"style">>])).pairs)
                  ELSE ruled
        parent_font_size == IF parent # None THEN styles[parent][<<"font-size">>]
                            ELSE INHERITED_PROPERTIES[<<"font-size">>]
    IN  Call(LAMBDA sized :
               Call(LAMBDA styled :
                      IF sized.raised
                      THEN [raised |-> TRUE, styles |-> styled]
                      ELSE StyleChildren(nodes, nodes[n].children, rs, styled),
                    SetItem(styles, n, sized.style)),
             Call(LAMBDA with_inline : ResolveFontSize(with_inline, parent_font_size),
                  inline))

style(nodes, n, rs, styles) ==
    LET parent == nodes[n].parent
        inherited == IF parent # None
                     THEN [k \in DOMAIN INHERITED_PROPERTIES |-> styles[parent][k]]
                     ELSE INHERITED_PROPERTIES
        ruled == ApplyRules(inherited, rs, nodes, n)
        inline == IF /\ nodes[n].kind = "element"
                     /\ <<"style">> \in DOMAIN nodes[n].attributes
                  THEN Update(ruled,
                           parse_rule_body(OrEmpty(nodes[n].attributes[<<"style">>])).pairs)
                  ELSE ruled
        parent_font_size == IF parent # None THEN styles[parent][<<"font-size">>]
                            ELSE INHERITED_PROPERTIES[<<"font-size">>]
    IN  Call(LAMBDA sized :
               Call(LAMBDA styled :
                      IF sized.raised
                      THEN [raised |-> TRUE, styles |-> styled]
                      ELSE StyleChildren(nodes, nodes[n].children, rs, styled),
                    SetItem(styles, n, sized.style)),
             Call(LAMBDA with_inline : ResolveFontSize(with_inline, parent_font_size),
                  inline))

StyleChildren(nodes, children, rs, styles) ==
    IF children = <<>> THEN [raised |-> FALSE, styles |-> styles]
    ELSE Call(LAMBDA first : IF first.raised THEN first
                             ELSE StyleChildren(nodes, Tail(children), rs, first.styles),
              style(nodes, Head(children), rs, styles))

\* The pages loaded: two stylesheet links, in either order, before a
\* paragraph of class c and a paragraph without a class; and the empty page.
LinkTag(href) ==
    <<"<", "link", " ", "rel", "=", "stylesheet", " ", "href", "=", href, ">">>
Paragraphs ==
    <<"<", "p", " ", "class", "=", "c", ">", "x", "<", "/", "p", ">",
      "<", "p", ">", "y">>
Documents ==
    {LinkTag("a") \o LinkTag("b") \o Paragraphs,
     LinkTag("b") \o LinkTag("a") \o Paragraphs,
     <<>>}

\* The rules the stylesheets are written with, and the stylesheets of n
\* rules.
SheetRules ==
    {<<"p", "{", "color", ":", "red", "}">>,
     <<"p", "{", "color", ":", "blue", "}">>,
     <<".", "c", "{", "color", ":", "green", "}">>,
     <<"p", ".", "c", "{", "color", ":", "red", "}">>,
     <<"body", " ", "p", "{", "color", ":", "blue", "}">>}
SheetTexts(n) == {Flatten(rs) : rs \in [1..n -> SheetRules]}

\* Browser.__init__ has parsed the default stylesheet; a page is about to
\* be loaded.  The stylesheets hold at most MaxRules rules in all.
InitCascade ==
    /\ CssIdle
    /\ charset = {}
    /\ html \in Documents
    /\ peeked = EOF
    /\ scan = NewScan
    /\ parser = NewParser
    /\ hpc = "idle"
    /\ result = None
    /\ \E n0, n1, n2 \in 0..MaxRules :
         /\ n0 + n1 + n2 <= MaxRules
         /\ \E d \in SheetTexts(n0), a \in SheetTexts(n1), b \in SheetTexts(n2) :
              /\ default_style_sheet = parse_css(d).rules
              /\ web = [href \in {<<"a">>, <<"b">>} |-> IF href = <<"a">> THEN a ELSE b]
    /\ links = <<>>
    /\ fetching = 0
    /\ page_rules = <<>>
    /\ node_style = <<>>
    /\ bpc = "start"
    /\ log = <<>>
    /\ net = NetIdle
    /\ LayoutIdle

\* What logger.error is called with: by load_page when the parser has no
\* root, and when the fetch of a stylesheet raises.
EmptyTreeError == <<"The HTML tree is empty, did you call .parse()?">>
RetrieveError(link) == <<"Couldn't retrieve file %s", link>>

\* A load that empties the display list and forgets the document when the
\* parser has no root.
LoadPage_ClearOnEmpty ==
    /\ bpc = "start"
    /\ \E r \in {parse(html)} :
           /\ parser' = r.parser
           /\ result' = r.result
           /\ hpc' = IF r.raised THEN "raised" ELSE "done"
           /\ IF r.raised \/ r.parser.root = None
              THEN /\ bpc' = IF r.raised THEN "raised" ELSE "done"
                   /\ log' = IF r.raised THEN log ELSE Append(log, EmptyTreeError)
                   /\ display_list' = <<>>
                   /\ document' = <<>>
                   /\ UNCHANGED <<links, page_rules>>
              ELSE /\ bpc' = "fetch"
                   /\ links' = Links(r.parser)
                   /\ page_rules' = default_style_sheet
                   /\ UNCHANGED <<log, display_list, document>>
    /\ UNCHANGED <<charset, html, peeked, scan>>
    /\ UNCHANGED cssVars
    /\ UNCHANGED <<default_style_sheet, web, fetching, node_style, net>>
    /\ UNCHANGED <<box, to_render, lpc, window_width, scroll, _previous_window_width,
                   canvas>>

\* load_page up to its loop: the markup is parsed, the links are collected,
\* the rules start as a copy of the default stylesheet.
LoadPage ==
    /\ bpc = "start"
    /\ \E r \in {parse(html)} :
           /\ parser' = r.parser
           /\ result' = r.result
           /\ hpc' = IF r.raised THEN "raised" ELSE "done"
           /\ IF r.raised \/ r.parser.root = None
              THEN /\ bpc' = IF r.raised THEN "raised" ELSE "done"
                   /\ log' = IF r.raised THEN log ELSE Append(log, EmptyTreeError)
                   /\ UNCHANGED <<links, page_rules>>
              ELSE /\ bpc' = "fetch"
                   /\ links' = Links(r.parser)
                   /\ page_rules' = default_style_sheet
                   /\ UNCHANGED log
    /\ UNCHANGED <<charset, html, peeked, scan>>
    /\ UNCHANGED cssVars
    /\ UNCHANGED <<default_style_sheet, web, fetching, node_style, net>>
    /\ UNCHANGED layoutVars

\* A round that puts the fetched rules before the rules gathered so far.
FetchSheet_Prepend ==
    /\ bpc = "fetch"
    /\ fetching < Len(links)
    /\ links[fetching + 1] \in DOMAIN web
    /\ page_rules' = parse_css(web[links[fetching + 1]]).rules \o page_rules
    /\ fetching' = fetching + 1
    /\ UNCHANGED htmlVars
    /\ UNCHANGED cssVars
    /\ UNCHANGED <<default_style_sheet, web, links, node_style, bpc, log, net>>
    /\ UNCHANGED layoutVars

\* load_page, one round of its loop: the stylesheet is fetched and its rules
\* are added.
FetchSheet ==
    /\ bpc = "fetch"
    /\ fetching < Len(links)
    /\ links[fetching + 1] \in DOMAIN web
    /\ page_rules' = page_rules \o parse_css(web[links[fetching + 1]]).rules
    /\ fetching' = fetching + 1
    /\ UNCHANGED htmlVars
    /\ UNCHANGED cssVars
    /\ UNCHANGED <<default_style_sheet, web, links, node_style, bpc, log, net>>
    /\ UNCHANGED layoutVars

\* A fetch that raises ends load_page.
FetchFails_Abort ==
    /\ bpc = "fetch"
    /\ fetching < Len(links)
    /\ fetching' = fetching + 1
    /\ log' = Append(log, RetrieveError(links[fetching + 1]))
    /\ bpc' = "raised"
    /\ UNCHANGED htmlVars
    /\ UNCHANGED cssVars
    /\ UNCHANGED <<default_style_sheet, web, links, page_rules, node_style, net>>
    /\ UNCHANGED layoutVars

\* load_page, one round of its loop: fetch raises, the link is skipped.
FetchFails ==
    /\ bpc = "fetch"
    /\ fetching < Len(links)
    /\ fetching' = fetching + 1
    /\ log' = Append(log, RetrieveError(links[fetching + 1]))
    /\ UNCHANGED htmlVars
    /\ UNCHANGED cssVars
    /\ UNCHANGED <<default_style_sheet, web, links, page_rules, node_style, bpc, net>>
    /\ UNCHANGED layoutVars

\* load_page after its loop: style on the root with the sorted rules.
Cascade ==
    /\ bpc = "fetch"
    /\ fetching = Len(links)
    /\ \E rs \in {sorted(page_rules)} :
       \E r \in {style(parser.nodes, parser.root, rs, <<>>)} :
           /\ node_style' = r.styles
           /\ bpc' = IF r.raised THEN "raised" ELSE "styled"
    /\ UNCHANGED htmlVars
    /\ UNCHANGED cssVars
    /\ UNCHANGED <<default_style_sheet, web, links, fetching, page_rules, log, net>>
    /\ UNCHANGED layoutVars

NextCascade == LoadPage \/ FetchSheet \/ FetchFails \/ Cascade

SpecCascade == InitCascade /\ [][NextCascade]_vars

\* Pages with an inline style: one stylesheet link, then a paragraph whose
\* tag carries a style attribute, holding a text and a b element.
StyleAttribute(text) == <<"style", "=", "\"">> \o text \o <<"\"">>
InlineStyles ==
    {<<"color", ":", "green">>,
     <<"color", ":", " ", "green">>,
     <<"font-size", ":", "5", "0", "%">>,
     <<"color", ":", "green", ";", "background-color", ":", "blue">>}
StyledPage(text) ==
    LinkTag("a") \o <<"<", "p", " ">> \o StyleAttribute(text)
                 \o <<">", "x", "<", "b", ">", "y">>
StyledDocuments == {StyledPage(text) : text \in InlineStyles}

\* The rules their stylesheets are written with.
StyledSheetRules ==
    {<<"p", "{", "color", ":", "red", "}">>,
     <<"body", "{", "font-size", ":", "2", "0", "p", "x", "}">>,
     <<"b", "{", "font-size", ":", "5", "0", "%", "}">>,
     <<"html", "{", "font-size", ":", "1", "5", "0", "%", "}">>,
     <<"b", "{", "background-color", ":", "red", "}">>,
     <<"p", "{", "font-size", ":", "1", "e", "m", "}">>}
StyledSheetTexts(n) == {Flatten(rs) : rs \in [1..n -> StyledSheetRules]}

\* Browser.__init__ has parsed the default stylesheet; a page with an inline
\* style is about to be loaded.
InitInline ==
    /\ CssIdle
    /\ charset = {}
    /\ html \in StyledDocuments
    /\ peeked = EOF
    /\ scan = NewScan
    /\ parser = NewParser
    /\ hpc = "idle"
    /\ result = None
    /\ \E n0, n1 \in 0..MaxRules :
         /\ n0 + n1 <= MaxRules
         /\ \E d \in StyledSheetTexts(n0), a \in StyledSheetTexts(n1) :
              /\ default_style_sheet = parse_css(d).rules
              /\ web = [href \in {<<"a">>, <<"b">>} |-> IF href = <<"a">> THEN a ELSE <<>>]
    /\ links = <<>>
    /\ fetching = 0
    /\ page_rules = <<>>
    /\ node_style = <<>>
    /\ bpc = "start"
    /\ log = <<>>
    /\ net = NetIdle
    /\ LayoutIdle

SpecInline == InitInline /\ [][NextCascade]_vars

-----------------------------------------------------------------------------
(* baby_browser/layout/commands.py, baby_browser/fonts.py *)

\* tkinter's Font: the metrics of a font and the width of a text, here the
\* same for every font.  A text is as wide as its characters.
metrics(font, name) ==
    CASE name = "ascent" -> 8 [] name = "descent" -> 4 [] name = "linespace" -> 12
CharWidth(c) ==
    CASE c = " " -> 5 [] c = "x" -> 30 [] c = "y" -> 60 [] c = "z" -> 120 [] OTHER -> 10
measure(font, text) == SumOf([i \in 1..Len(text) |-> CharWidth(text[i])])

\* get_font: the font of a key.
get_font(family, size, weight, slant) ==
    [family |-> family, size |-> size, weight |-> weight, slant |-> slant]

\* DrawText(**kwargs).  The dataclass takes top, left, right, text and font
\* (bottom is not an argument, and the default of font cannot be built);
\* any other keyword raises TypeError.
DrawTextInit == {"top", "left", "right", "text", "font"}
DrawText(kwargs) ==
    IF /\ DOMAIN kwargs \subseteq DrawTextInit
       /\ {"top", "left", "font"} \subseteq DOMAIN kwargs
    THEN [raised |-> FALSE,
          command |-> [type |-> "text", top |-> kwargs.top, left |-> kwargs.left,
                       bottom |-> kwargs.top + metrics(kwargs.font, "linespace"),
                       right |-> IF "right" \in DOMAIN kwargs THEN kwargs.right ELSE 0,
                       text |-> IF "text" \in DOMAIN kwargs THEN kwargs.text ELSE <<>>,
                       font |-> kwargs.font]]
    ELSE [raised |-> TRUE, command |-> <<>>]

DrawRect(top, left, bottom, right, color) ==
    [type |-> "rect", top |-> top, left |-> left, bottom |-> bottom,
     right |-> right, color |-> color]

-----------------------------------------------------------------------------
(* baby_browser/browser.py: BlockLayout in inline mode *)

Max(S) == CHOOSE m \in S : \A n \in S : n <= m

\* BlockLayout(html_node, parent, previous) once layout has set its place;
\* parent and previous are read through x, y and width.  Every call of
\* DocumentLayout.layout makes new objects: made tells them apart.
NewBox(html_node, x, y, width, height, made) ==
    [html_node |-> html_node, x |-> x, y |-> y, width |-> width, height |-> height,
     made |-> made,
     children |-> <<>>, display_list |-> <<>>,
     _line |-> <<>>, cursor_x |-> 0, cursor_y |-> 0]

\* BlockLayout.get_font
BlockLayout_get_font(node_style_map) ==
    LET family == node_style_map[<<"font-family">>]
        weight == node_style_map[<<"font-weight">>]
        slant == IF node_style_map[<<"font-style">>] = <<"normal">>
                 THEN <<"roman">> ELSE node_style_map[<<"font-style">>]
        font_size == node_style_map[<<"font-size">>]
        px == float(SubSeq(font_size, 1, Len(font_size) - 2))
    IN  IF ~px.ok THEN [raised |-> TRUE, font |-> <<>>]
        ELSE [raised |-> FALSE,
              font |-> get_font(family, ((px.value * 3) \div 4) \div 10000, weight, slant)]

\* BlockLayout._flush_line: the commands of the line are built one by one,
\* and the first that cannot be built ends the call.
_flush_line(b) ==
    IF b._line = <<>> THEN [raised |-> FALSE, box |-> b]
    ELSE
    LET max_ascent == Max({metrics(b._line[i].font, "ascent") : i \in 1..Len(b._line)})
        baseline == b.cursor_y + (5 * max_ascent) \div 4
        max_descent == Max({metrics(b._line[i].font, "descent") : i \in 1..Len(b._line)})
        made == [i \in 1..Len(b._line) |->
                   DrawText([top |-> b.y + baseline - metrics(b._line[i].font, "ascent"),
                             left |-> b.x + b._line[i].relative_x,
                             text |-> b._line[i].word,
                             font |-> b._line[i].font,
                             color |-> b._line[i].color])]
        built == IF \E i \in 1..Len(made) : made[i].raised
                 THEN (CHOOSE i \in 1..Len(made) :
                          made[i].raised /\ \A k \in 1..(i - 1) : ~made[k].raised) - 1
                 ELSE Len(made)
    IN  IF built < Len(made)
        THEN [raised |-> TRUE,
              box |-> [b EXCEPT !.display_list = @ \o [i \in 1..built |-> made[i].command]]]
        ELSE [raised |-> FALSE,
              box |-> [b EXCEPT !.display_list = @ \o [i \in 1..built |-> made[i].command],
                                !.cursor_x = 0,
                                !.cursor_y = baseline + (5 * max_descent) \div 4,
                                !._line = <<>>]]

\* A placing that never breaks the line.
_render_word_WithoutBreak(b, node_style_map, word) ==
    LET f == BlockLayout_get_font(node_style_map)
    IN  IF f.raised THEN [raised |-> TRUE, box |-> b]
        ELSE [raised |-> FALSE,
              box |-> [b EXCEPT
                         !._line = Append(@, [relative_x |-> b.cursor_x, word |-> word,
                                              font |-> f.font,
                                              color |-> node_style_map[<<"color">>]]),
                         !.cursor_x = @ + measure(f.font, word) + measure(f.font, <<" ">>)]]

\* BlockLayout._render_word
_render_word(b, node_style_map, word) ==
    LET f == BlockLayout_get_font(node_style_map)
        word_width == measure(f.font, word)
        flushed == IF b.cursor_x + word_width > b.width
                   THEN _flush_line(b) ELSE [raised |-> FALSE, box |-> b]
    IN  IF f.raised THEN [raised |-> TRUE, box |-> b]
        ELSE IF flushed.raised THEN flushed
        ELSE [raised |-> FALSE,
              box |-> [flushed.box EXCEPT
                         !._line = Append(@, [relative_x |-> flushed.box.cursor_x,
                                              word |-> word, font |-> f.font,
                                              color |-> node_style_map[<<"color">>]]),
                         !.cursor_x = @ + word_width + measure(f.font, <<" ">>)]]

\* The inline layout of one box, word by word: the boxes and the runs of
\* words and br elements it is given.
MaxWords == 3
BoxWidths == {50, 100}
Word(word) == [kind |-> "word", word |-> word]
Br == [kind |-> "br", word |-> <<>>]
RenderItems == {Word(<<"x">>), Word(<<"y">>), Word(<<"z">>), Word(<<"x", "x">>), Br}
RenderRuns == UNION {[1..n -> RenderItems] : n \in 0..MaxWords}

\* BlockLayout.layout has set the place of an inline box and is about to
\* call _render_tree.
InitWords ==
    /\ CssIdle
    /\ PageIdle
    /\ charset = {}
    /\ html = <<>>
    /\ peeked = EOF
    /\ scan = NewScan
    /\ parser = NewParser
    /\ hpc = "idle"
    /\ result = None
    /\ \E width \in BoxWidths : box = NewBox(None, 13, 18, width, 0, 0)
    /\ to_render \in RenderRuns
    /\ lpc = "render"
    /\ window_width = 800
    /\ document = NoDocument
    /\ display_list = <<>>
    /\ scroll = 0
    /\ _previous_window_width = -1
    /\ canvas = <<>>

\* _render_tree comes to a word of a text.
RenderWord ==
    /\ lpc = "render"
    /\ to_render # <<>>
    /\ Head(to_render).kind = "word"
    /\ \E r \in {_render_word(box, INHERITED_PROPERTIES, Head(to_render).word)} :
           /\ box' = r.box
           /\ lpc' = IF r.raised THEN "raised" ELSE "render"
    /\ to_render' = Tail(to_render)
    /\ UNCHANGED <<htmlVars, cssVars, pageVars>>
    /\ UNCHANGED <<window_width, document, display_list, scroll,
                   _previous_window_width, canvas>>

\* _render_tree comes to a br element.
RenderBr ==
    /\ lpc = "render"
    /\ to_render # <<>>
    /\ Head(to_render).kind = "br"
    /\ \E r \in {_flush_line(box)} :
           /\ box' = r.box
           /\ lpc' = IF r.raised THEN "raised" ELSE "render"
    /\ to_render' = Tail(to_render)
    /\ UNCHANGED <<htmlVars, cssVars, pageVars>>
    /\ UNCHANGED <<window_width, document, display_list, scroll,
                   _previous_window_width, canvas>>

\* BlockLayout.layout after _render_tree: the last line is flushed and the
\* height is set.
FinishLine ==
    /\ lpc = "render"
    /\ to_render = <<>>
    /\ \E r \in {_flush_line(box)} :
           /\ box' = IF ~r.raised /\ r.box.height = 0
                     THEN [r.box EXCEPT !.height = r.box.cursor_y] ELSE r.box
           /\ lpc' = IF r.raised THEN "raised" ELSE "done"
    /\ UNCHANGED <<htmlVars, cssVars, pageVars>>
    /\ UNCHANGED <<to_render, window_width, document, display_list, scroll,
                   _previous_window_width, canvas>>

NextWords == RenderWord \/ RenderBr \/ FinishLine

SpecWords == InitWords /\ [][NextWords]_vars

-----------------------------------------------------------------------------
(* baby_browser/browser.py: BlockLayout, DocumentLayout, Browser *)

WINDOW_H_MARGIN == 13
WINDOW_V_MARGIN == 18
VSTEP == 18
SCROLL_STEP == 3 * VSTEP
SCROLLBAR_WIDTH == 15

\* canvas.winfo_height(): the canvas keeps the height it was made with.
WindowHeight == 600

BLOCK_ELEMENTS ==
    {<<"html">>, <<"body">>, <<"article">>, <<"section">>, <<"nav">>, <<"aside">>,
     <<"h1">>, <<"h2">>, <<"h3">>, <<"h4">>, <<"h5">>, <<"h6">>, <<"hgroup">>,
     <<"header">>, <<"footer">>, <<"address">>, <<"p">>, <<"hr">>, <<"pre">>,
     <<"blockquote">>, <<"ol">>, <<"ul">>, <<"menu">>, <<"li">>, <<"dl">>, <<"dt">>,
     <<"dd">>, <<"figure">>, <<"figcaption">>, <<"main">>, <<"div">>, <<"table">>,
     <<"form">>, <<"fieldset">>, <<"legend">>, <<"details">>, <<"summary">>}

\* HIDDEN_ELEMENTS: the elements that are not shown.
HIDDEN_ELEMENTS == {<<"head">>, <<"script">>, <<"style">>}

\* is_windows()
is_windows == FALSE

\* Node.is_block_element, Element.is_block_element
is_block_element(nodes, n) ==
    nodes[n].kind = "element" /\ nodes[n].tag \in BLOCK_ELEMENTS

\* Node.get_layout_mode, Element.get_layout_mode
get_layout_mode(nodes, n) ==
    IF nodes[n].kind # "element"
    THEN (IF is_block_element(nodes, n) THEN "block" ELSE "inline")
    ELSE LET of == IF nodes[n].children # <<>> THEN nodes[n].children ELSE <<n>>
         IN  IF \E i \in 1..Len(of) : is_block_element(nodes, of[i])
             THEN "block" ELSE "inline"

\* BlockLayout._render_tree: the words and br elements of the subtree of
\* node n, in the order _render_tree comes to them.
RECURSIVE _render_tree(_, _)
_render_tree(nodes, n) ==
    IF nodes[n].kind = "text"
    THEN LET found == SplitWhitespace(nodes[n].text)
         IN  [i \in 1..Len(found) |-> [kind |-> "word", word |-> found[i], node |-> n]]
    ELSE IF nodes[n].tag \in HIDDEN_ELEMENTS THEN <<>>
    ELSE (IF nodes[n].tag = <<"br">> THEN <<[kind |-> "br", word |-> <<>>, node |-> n]>>
          ELSE <<>>)
         \o Flatten([i \in 1..Len(nodes[n].children) |->
                       _render_tree(nodes, nodes[n].children[i])])

\* The words and br elements given to _render_word and _flush_line, one
\* after the other, until one raises.
RECURSIVE RenderFrom(_, _, _)
RenderFrom(b, items, styles) ==
    IF items = <<>> THEN [raised |-> FALSE, box |-> b]
    ELSE Call(LAMBDA r : IF r.raised THEN r ELSE RenderFrom(r.box, Tail(items), styles),
              IF Head(items).kind = "br" THEN _flush_line(b)
              ELSE _render_word(b, styles[Head(items).node], Head(items).word))

\* float(text) for a width or a height: whole numbers.
Size(text) == [ok |-> float(text).ok, value |-> float(text).value \div 10000]

\* BlockLayout.layout of the box of node n, whose parent box is at
\* parent.x, parent.y with parent.width, and whose previous sibling, if any,
\* is the box previous.  LayoutChildren is _layout_intermediate with the
\* layout of the children.
NoBox == <<>>
RECURSIVE BlockLayout_layout(_, _, _, _, _, _)
RECURSIVE LayoutChildren(_, _, _, _, _, _, _)
\* A layout that puts a box at the top of its previous sibling.
BlockLayout_layout_NoStack(nodes, styles, n, parent, previous, made) ==
    LET x == parent.x
        y == IF previous # NoBox THEN previous.y ELSE parent.y
        width == Get(styles[n], <<"width">>)
        height == Get(styles[n], <<"height">>)
        explicit_width == width # NoValue /\ width # <<"auto">>
        explicit_height == height # NoValue /\ height # <<"auto">>
        b == NewBox(n, x, y,
                    IF explicit_width THEN Size(width).value ELSE parent.width,
                    IF explicit_height /\ Size(height).ok /\ ~(explicit_width /\ ~Size(width).ok)
                    THEN Size(height).value ELSE 0,
                    made)
        mode == get_layout_mode(nodes, n)
    IN  IF \/ explicit_width /\ ~Size(width).ok
           \/ explicit_height /\ ~Size(height).ok
        THEN [raised |-> TRUE, box |-> b]
        ELSE IF mode = "block"
        THEN Call(LAMBDA r :
                    [raised |-> r.raised,
                     box |-> [b EXCEPT !.children = r.boxes,
                                       !.height = IF r.raised THEN @
                                                  ELSE SumOf([i \in 1..Len(r.boxes) |->
                                                                r.boxes[i].height])]],
                  IF nodes[n].kind = "element" /\ nodes[n].tag \in HIDDEN_ELEMENTS
                  THEN [raised |-> FALSE, boxes |-> <<>>]
                  ELSE LayoutChildren(nodes, styles, nodes[n].children, b, NoBox, made, <<>>))
        ELSE Call(LAMBDA r :
                    Call(LAMBDA f :
                           [raised |-> f.raised,
                            box |-> IF ~f.raised /\ f.box.height = 0
                                    THEN [f.box EXCEPT !.height = f.box.cursor_y]
                                    ELSE f.box],
                         IF r.raised THEN r ELSE _flush_line(r.box)),
                  RenderFrom(b, _render_tree(nodes, n), styles))

\* A layout that leaves a box in block mode its explicit height.
BlockLayout_layout_KeepHeight(nodes, styles, n, parent, previous, made) ==
    LET x == parent.x
        y == IF previous # NoBox THEN previous.y + previous.height ELSE parent.y
        width == Get(styles[n], <<"width">>)
        height == Get(styles[n], <<"height">>)
        explicit_width == width # NoValue /\ width # <<"auto">>
        explicit_height == height # NoValue /\ height # <<"auto">>
        b == NewBox(n, x, y,
                    IF explicit_width THEN Size(width).value ELSE parent.width,
                    IF explicit_height /\ Size(height).ok /\ ~(explicit_width /\ ~Size(width).ok)
                    THEN Size(height).value ELSE 0,
                    made)
        mode == get_layout_mode(nodes, n)
    IN  IF \/ explicit_width /\ ~Size(width).ok
           \/ explicit_height /\ ~Size(height).ok
        THEN [raised |-> TRUE, box |-> b]
        ELSE IF mode = "block"
        THEN Call(LAMBDA r :
                    [raised |-> r.raised,
                     box |-> [b EXCEPT !.children = r.boxes,
                                       !.height = IF r.raised \/ explicit_height THEN @
                                                  ELSE SumOf([i \in 1..Len(r.boxes) |->
                                                                r.boxes[i].height])]],
                  IF nodes[n].kind = "element" /\ nodes[n].tag \in HIDDEN_ELEMENTS
                  THEN [raised |-> FALSE, boxes |-> <<>>]
                  ELSE LayoutChildren(nodes, styles, nodes[n].children, b, NoBox, made, <<>>))
        ELSE Call(LAMBDA r :
                    Call(LAMBDA f :
                           [raised |-> f.raised,
                            box |-> IF ~f.raised /\ f.box.height = 0
                                    THEN [f.box EXCEPT !.height = f.box.cursor_y]
                                    ELSE f.box],
                         IF r.raised THEN r ELSE _flush_line(r.box)),
                  RenderFrom(b, _render_tree(nodes, n), styles))

\* A layout that gives every box in inline mode the height of its cursor.
BlockLayout_layout_CursorHeight(nodes, styles, n, parent, previous, made) ==
    LET x == parent.x
        y == IF previous # NoBox THEN previous.y + previous.height ELSE parent.y
        width == Get(styles[n], <<"width">>)
        height == Get(styles[n], <<"height">>)
        explicit_width == width # NoValue /\ width # <<"auto">>
        explicit_height == height # NoValue /\ height # <<"auto">>
        b == NewBox(n, x, y,
                    IF explicit_width THEN Size(width).value ELSE parent.width,
                    IF explicit_height /\ Size(height).ok /\ ~(explicit_width /\ ~Size(width).ok)
                    THEN Size(height).value ELSE 0,
                    made)
        mode == get_layout_mode(nodes, n)
    IN  IF \/ explicit_width /\ ~Size(width).ok
           \/ explicit_height /\ ~Size(height).ok
        THEN [raised |-> TRUE, box |-> b]
        ELSE IF mode = "block"
        THEN Call(LAMBDA r :
                    [raised |-> r.raised,
                     box |-> [b EXCEPT !.children = r.boxes,
                                       !.height = IF r.raised THEN @
                                                  ELSE SumOf([i \in 1..Len(r.boxes) |->
                                                                r.boxes[i].height])]],
                  IF nodes[n].kind = "element" /\ nodes[n].tag \in HIDDEN_ELEMENTS
                  THEN [raised |-> FALSE, boxes |-> <<>>]
                  ELSE LayoutChildren(nodes, styles, nodes[n].children, b, NoBox, made, <<>>))
        ELSE Call(LAMBDA r :
                    Call(LAMBDA f :
                           [raised |-> f.raised,
                            box |-> IF ~f.raised
                                    THEN [f.box EXCEPT !.height = f.box.cursor_y]
                                    ELSE f.box],
                         IF r.raised THEN r ELSE _flush_line(r.box)),
                  RenderFrom(b, _render_tree(nodes, n), styles))

BlockLayout_layout(nodes, styles, n, parent, previous, made) ==
    LET x == parent.x
        y == IF previous # NoBox THEN previous.y + previous.height ELSE parent.y
        width == Get(styles[n], <<"width">>)
        height == Get(styles[n], <<"height">>)
        explicit_width == width # NoValue /\ width # <<"auto">>
        explicit_height == height # NoValue /\ height # <<"auto">>
        b == NewBox(n, x, y,
                    IF explicit_width THEN Size(width).value ELSE parent.width,
                    IF explicit_height /\ Size(height).ok /\ ~(explicit_width /\ ~Size(width).ok)
                    THEN Size(height).value ELSE 0,
                    made)
        mode == get_layout_mode(nodes, n)
    IN  IF \/ explicit_width /\ ~Size(width).ok
           \/ explicit_height /\ ~Size(height).ok
        THEN [raised |-> TRUE, box |-> b]
        ELSE IF mode = "block"
        THEN Call(LAMBDA r :
                    [raised |-> r.raised,
                     box |-> [b EXCEPT !.children = r.boxes,
                                       !.height = IF r.raised THEN @
                                                  ELSE SumOf([i \in 1..Len(r.boxes) |->
                                                                r.boxes[i].height])]],
                  IF nodes[n].kind = "element" /\ nodes[n].tag \in HIDDEN_ELEMENTS
                  THEN [raised |-> FALSE, boxes |-> <<>>]
                  ELSE LayoutChildren(nodes, styles, nodes[n].children, b, NoBox, made, <<>>))
        ELSE Call(LAMBDA r :
                    Call(LAMBDA f :
                           [raised |-> f.raised,
                            box |-> IF ~f.raised /\ f.box.height = 0
                                    THEN [f.box EXCEPT !.height = f.box.cursor_y]
                                    ELSE f.box],
                         IF r.raised THEN r ELSE _flush_line(r.box)),
                  RenderFrom(b, _render_tree(nodes, n), styles))

LayoutChildren(nodes, styles, todo, parent, previous, made, laid) ==
    IF todo = <<>> THEN [raised |-> FALSE, boxes |-> laid]
    ELSE Call(LAMBDA r :
                IF r.raised
                THEN [raised |-> TRUE,
                      boxes |-> laid \o <<r.box>>
                                \o [i \in 1..(Len(todo) - 1) |->
                                      NewBox(todo[i + 1], 0, 0, 0, 0, made)]]
                ELSE LayoutChildren(nodes, styles, Tail(todo), parent, r.box, made,
                                    Append(laid, r.box)),
              BlockLayout_layout(nodes, styles, Head(todo), parent, previous, made))

\* DocumentLayout(node)
DocumentLayout(node) ==
    [node |-> node, x |-> 0, y |-> 0, width |-> 0, height |-> 0,
     children |-> <<>>, layouts |-> 0]

\* A layout that adds the new box to the children instead of replacing
\* them.
DocumentLayout_layout_KeepChildren(doc, nodes, styles, width) ==
    LET placed == [doc EXCEPT !.width = width - 2 * WINDOW_H_MARGIN - SCROLLBAR_WIDTH,
                              !.height = 0,
                              !.x = WINDOW_H_MARGIN,
                              !.y = WINDOW_V_MARGIN,
                              !.layouts = @ + 1]
    IN  Call(LAMBDA r :
               [raised |-> r.raised,
                document |-> [placed EXCEPT
                                !.children = Append(@, r.box),
                                !.height = IF r.raised THEN @
                                           ELSE r.box.height + 2 * WINDOW_V_MARGIN]],
             BlockLayout_layout(nodes, styles, doc.node, placed, NoBox, placed.layouts))

\* DocumentLayout.layout(width); layouts counts the calls.
DocumentLayout_layout(doc, nodes, styles, width) ==
    LET placed == [doc EXCEPT !.width = width - 2 * WINDOW_H_MARGIN - SCROLLBAR_WIDTH,
                              !.height = 0,
                              !.x = WINDOW_H_MARGIN,
                              !.y = WINDOW_V_MARGIN,
                              !.layouts = @ + 1]
    IN  Call(LAMBDA r :
               [raised |-> r.raised,
                document |-> [placed EXCEPT
                                !.children = <<r.box>>,
                                !.height = IF r.raised THEN @
                                           ELSE r.box.height + 2 * WINDOW_V_MARGIN]],
             BlockLayout_layout(nodes, styles, doc.node, placed, NoBox, placed.layouts))

\* A paint that puts the background of a box behind its contents in the
\* list.
RECURSIVE BlockLayout_paint_RectLast(_, _, _, _)
BlockLayout_paint_RectLast(nodes, styles, b, list) ==
    LET bgcolor == Get(styles[b.html_node], <<"background-color">>)
        mode == get_layout_mode(nodes, b.html_node)
        own == IF mode = "inline" THEN list \o b.display_list ELSE list
        RECURSIVE PaintChildren(_, _)
        PaintChildren(todo, sofar) ==
            IF todo = <<>> THEN sofar
            ELSE Call(LAMBDA painted : PaintChildren(Tail(todo), painted),
                      BlockLayout_paint_RectLast(nodes, styles, Head(todo), sofar))
    IN  Call(LAMBDA painted :
               IF bgcolor # NoValue /\ bgcolor # <<"transparent">>
               THEN Append(painted, DrawRect(b.y, b.x, b.y + b.height, b.x + b.width, bgcolor))
               ELSE painted,
             PaintChildren(b.children, own))

\* BlockLayout.paint(display_list)
RECURSIVE BlockLayout_paint(_, _, _, _)
BlockLayout_paint(nodes, styles, b, list) ==
    LET bgcolor == Get(styles[b.html_node], <<"background-color">>)
        with_rect == IF bgcolor # NoValue /\ bgcolor # <<"transparent">>
                     THEN Append(list, DrawRect(b.y, b.x, b.y + b.height,
                                                b.x + b.width, bgcolor))
                     ELSE list
        mode == get_layout_mode(nodes, b.html_node)
        own == IF mode = "inline" THEN with_rect \o b.display_list ELSE with_rect
        RECURSIVE PaintChildren(_, _)
        PaintChildren(todo, sofar) ==
            IF todo = <<>> THEN sofar
            ELSE Call(LAMBDA painted : PaintChildren(Tail(todo), painted),
                      BlockLayout_paint(nodes, styles, Head(todo), sofar))
    IN  PaintChildren(b.children, own)

\* DocumentLayout.paint(display_list)
DocumentLayout_paint(doc, nodes, styles, list) ==
    BlockLayout_paint(nodes, styles, doc.children[1], list)

\* Browser._render_scrollbar: the three shapes of the scrollbar, kept as
\* what they are drawn from; the division raises ZeroDivisionError when the
\* document is as high as the window.
_render_scrollbar(doc, width, offset) ==
    IF doc.height = WindowHeight
    THEN [raised |-> TRUE, drawn |-> <<>>]
    ELSE [raised |-> FALSE,
          drawn |-> <<[type |-> "scrollbar", window_width |-> width,
                       window_height |-> WindowHeight, scroll |-> offset,
                       document_height |-> doc.height]>>]

\* Browser.draw: the commands in view are executed, then the scrollbar is
\* drawn.
draw(list, offset, doc, width, on_canvas) ==
    LET height == WindowHeight
        InView(command) ==
            ~(command.bottom < offset \/ command.top > offset + height)
        executed == SelectSeq(list, InView)
        shapes == [i \in 1..Len(executed) |->
                     [type |-> executed[i].type, command |-> executed[i],
                      y |-> executed[i].top - offset]]
        bar == _render_scrollbar(doc, width, offset)
    IN  [raised |-> bar.raised, canvas |-> on_canvas \o shapes \o bar.drawn]

\* The pages laid out: boxes without text, a paragraph of two words, and a
\* paragraph inside an inline element that goes on after it.
BoxesPage ==
    <<"<", "div", ">", "<", "p", ">", "<", "/", "p", ">", "<", "b", ">", "<", "/", "b", ">",
      "<", "/", "div", ">", "<", "p", ">", "<", "/", "p", ">">>
HelloPage == <<"<", "p", ">", "Hello", " ", "world", "<", "/", "p", ">">>
NestedPage ==
    <<"<", "b", ">", "<", "p", ">", "x", "<", "/", "p", ">", "y", "<", "/", "b", ">">>
LayoutDocuments == {BoxesPage, HelloPage, NestedPage}

\* The rules the default stylesheet is written with.
LayoutSheetRules ==
    {<<"div", "{", "background-color", ":", "red", "}">>,
     <<"p", "{", "background-color", ":", "blue", "}">>,
     <<"p", "{", "background-color", ":", "transparent", "}">>,
     <<"div", "{", "width", ":", "5", "0", "}">>,
     <<"b", "{", "height", ":", "7", "0", "0", "}">>,
     <<"div", "{", "height", ":", "3", "0", "}">>}
LayoutSheetTexts(n) == {Flatten(rs) : rs \in [1..n -> LayoutSheetRules]}

\* The widths the window is given, the scroll events, and the number of
\* layouts of a page.
Widths == {1, 400, 800}
ScrollEvents ==
    {[type |-> "KeyPress", keysym |-> "Down", delta |-> 0],
     [type |-> "KeyPress", keysym |-> "Up", delta |-> 0],
     [type |-> "MouseWheel", keysym |-> "", delta |-> 1],
     [type |-> "MouseWheel", keysym |-> "", delta |-> -1]}
MaxLayouts == 3

\* Browser.__init__ has parsed the default stylesheet and made the canvas
\* 800 wide; a page without stylesheet links is about to be loaded.
InitLayout ==
    /\ CssIdle
    /\ charset = {}
    /\ html \in LayoutDocuments
    /\ peeked = EOF
    /\ scan = NewScan
    /\ parser = NewParser
    /\ hpc = "idle"
    /\ result = None
    /\ \E n0 \in 0..MaxRules : \E d \in LayoutSheetTexts(n0) :
           default_style_sheet = parse_css(d).rules
    /\ web = [href \in {<<"a">>, <<"b">>} |-> <<>>]
    /\ links = <<>>
    /\ fetching = 0
    /\ page_rules = <<>>
    /\ node_style = <<>>
    /\ bpc = "start"
    /\ log = <<>>
    /\ net = NetIdle
    /\ LayoutIdle

\* load_page after style: the document is laid out at the width of the
\* canvas, painted and drawn.
LayoutPage ==
    /\ bpc = "styled"
    /\ \E r \in {DocumentLayout_layout(DocumentLayout(parser.root), parser.nodes,
                                       node_style, window_width)} :
           /\ document' = r.document
           /\ IF r.raised
              THEN /\ bpc' = "raised"
                   /\ UNCHANGED <<display_list, canvas>>
              ELSE \E painted \in {DocumentLayout_paint(r.document, parser.nodes,
                                                        node_style, <<>>)} :
                   \E d \in {draw(painted, scroll, r.document, window_width, canvas)} :
                       /\ display_list' = painted
                       /\ canvas' = d.canvas
                       /\ bpc' = IF d.raised THEN "raised" ELSE "drawn"
    /\ UNCHANGED <<htmlVars, cssVars>>
    /\ UNCHANGED <<default_style_sheet, web, links, fetching, page_rules, node_style, log, net>>
    /\ UNCHANGED <<box, to_render, lpc, window_width, scroll, _previous_window_width>>

\* The window is given a width: Browser._on_resize
_on_resize ==
    /\ bpc = "drawn"
    /\ \E width \in Widths :
         /\ window_width' = width
         /\ IF width <= 1 \/ width = _previous_window_width
            THEN UNCHANGED <<document, display_list, canvas, _previous_window_width>>
            ELSE
              /\ document.layouts < MaxLayouts
              /\ \E r \in {DocumentLayout_layout(document, parser.nodes, node_style, width)} :
                   /\ document' = r.document
                   /\ IF r.raised
                      THEN UNCHANGED <<display_list, canvas, _previous_window_width>>
                      ELSE \E painted \in {DocumentLayout_paint(r.document, parser.nodes,
                                                                node_style, <<>>)} :
                           \E d \in {draw(painted, scroll, r.document, width, <<>>)} :
                               /\ display_list' = painted
                               /\ canvas' = d.canvas
                               /\ _previous_window_width' =
                                      IF d.raised THEN _previous_window_width ELSE width
    /\ UNCHANGED <<htmlVars, cssVars, pageVars>>
    /\ UNCHANGED <<box, to_render, lpc, scroll>>

\* A scroll that lays the document out and paints it again before it
\* draws.
_on_scroll_Relayout ==
    /\ bpc = "drawn"
    /\ document.layouts < MaxLayouts
    /\ \E event \in ScrollEvents :
         LET scroll_delta ==
                 IF event.type = "MouseWheel" THEN 0 - event.delta * SCROLL_STEP
                 ELSE IF event.keysym = "Down" THEN 0 - SCROLL_STEP ELSE SCROLL_STEP
             laid == DocumentLayout_layout(document, parser.nodes, node_style,
                                           window_width).document
             max_scroll == laid.height - WindowHeight
             scrolled == IF scroll + scroll_delta >= 0
                         THEN (IF scroll + scroll_delta <= max_scroll
                               THEN scroll + scroll_delta ELSE max_scroll)
                         ELSE 0
         IN  /\ scroll' = scrolled
             /\ document' = laid
             /\ display_list' = DocumentLayout_paint(laid, parser.nodes, node_style, <<>>)
             /\ canvas' = draw(display_list', scrolled, laid, window_width, <<>>).canvas
    /\ UNCHANGED <<htmlVars, cssVars, pageVars>>
    /\ UNCHANGED <<box, to_render, lpc, window_width, _previous_window_width>>

\* A key or the wheel: Browser._on_scroll
_on_scroll ==
    /\ bpc = "drawn"
    /\ \E event \in ScrollEvents :
         LET wheel == IF is_windows THEN (0 - event.delta * SCROLL_STEP) \div 120
                      ELSE 0 - event.delta * SCROLL_STEP
             scroll_delta ==
                 IF event.type = "MouseWheel" THEN wheel
                 ELSE IF event.type = "KeyPress" /\ event.keysym = "Down" THEN 0 - SCROLL_STEP
                 ELSE IF event.type = "KeyPress" /\ event.keysym = "Up" THEN SCROLL_STEP
                 ELSE 0
             max_scroll == document.height - WindowHeight
             scrolled == IF scroll + scroll_delta >= 0
                         THEN (IF scroll + scroll_delta <= max_scroll
                               THEN scroll + scroll_delta ELSE max_scroll)
                         ELSE 0
         IN  /\ scroll' = scrolled
             /\ canvas' = draw(display_list, scrolled, document, window_width, <<>>).canvas
    /\ UNCHANGED <<htmlVars, cssVars, pageVars>>
    /\ UNCHANGED <<box, to_render, lpc, window_width, document, display_list,
                   _previous_window_width>>

NextLayout == LoadPage \/ Cascade \/ LayoutPage \/ _on_resize \/ _on_scroll

SpecLayout == InitLayout /\ [][NextLayout]_vars

\* A page with two linked stylesheets and boxes without text, and the rules
\* the three stylesheets are written with.
LinkedPage ==
    LinkTag("a") \o LinkTag("b")
    \o <<"<", "div", ">", "<", "p", ">", "<", "/", "p", ">", "<", "/", "div", ">">>
LinkedSheetRules ==
    {<<"div", "{", "background-color", ":", "red", "}">>,
     <<"p", "{", "background-color", ":", "blue", "}">>,
     <<"p", "{", "background-color", ":", "green", "}">>}
LinkedSheetTexts(n) == {Flatten(rs) : rs \in [1..n -> LinkedSheetRules]}

\* Browser.__init__ has parsed the default stylesheet; the page with the two
\* links is about to be loaded.
InitLinked ==
    /\ CssIdle
    /\ charset = {}
    /\ html = LinkedPage
    /\ peeked = EOF
    /\ scan = NewScan
    /\ parser = NewParser
    /\ hpc = "idle"
    /\ result = None
    /\ \E n0, n1, n2 \in 0..MaxRules :
         /\ n0 + n1 + n2 <= MaxRules
         /\ \E d \in LinkedSheetTexts(n0), a \in LinkedSheetTexts(n1),
               b \in LinkedSheetTexts(n2) :
              /\ default_style_sheet = parse_css(d).rules
              /\ web = [href \in {<<"a">>, <<"b">>} |-> IF href = <<"a">> THEN a ELSE b]
    /\ links = <<>>
    /\ fetching = 0
    /\ page_rules = <<>>
    /\ node_style = <<>>
    /\ bpc = "start"
    /\ log = <<>>
    /\ net = NetIdle
    /\ LayoutIdle

\* load_page from its call to its return.
NextLinked == LoadPage \/ FetchSheet \/ FetchFails \/ Cascade \/ LayoutPage

SpecLinked == InitLinked /\ [][NextLinked]_vars

\* The pages a browser is sent to, one after the other: a page with boxes,
\* and pages that leave the parser without a root: the empty page, a blank
\* page, and a page of a doctype only.
EmptyPage == <<>>
BlankPage == <<" ", "\n">>
DoctypePage == <<"<", "!", "doctype", " ", "html", ">">>
VisitedPages == {BoxesPage, EmptyPage, BlankPage, DoctypePage}

\* The number of errors logged after which no further page is visited.
MaxLog == 2

\* Browser.__init__ has parsed the default stylesheet; the first page is
\* about to be loaded.
InitVisits ==
    /\ CssIdle
    /\ charset = {}
    /\ html \in VisitedPages
    /\ peeked = EOF
    /\ scan = NewScan
    /\ parser = NewParser
    /\ hpc = "idle"
    /\ result = None
    /\ \E n0 \in 0..MaxRules : \E d \in LayoutSheetTexts(n0) :
           default_style_sheet = parse_css(d).rules
    /\ web = [href \in {<<"a">>, <<"b">>} |-> <<>>]
    /\ links = <<>>
    /\ fetching = 0
    /\ page_rules = <<>>
    /\ node_style = <<>>
    /\ bpc = "start"
    /\ log = <<>>
    /\ net = NetIdle
    /\ LayoutIdle

\* load_page is called once more, after it has returned: the markup of the
\* next page is loaded and a parser is made for it.  A page with boxes is
\* visited once, since each drawn page adds its shapes to the canvas.
Visit ==
    /\ bpc \in {"drawn", "done"}
    /\ Len(log) < MaxLog
    /\ \E next \in VisitedPages :
           /\ next = BoxesPage => document = NoDocument
           /\ html' = next
    /\ bpc' = "start"
    /\ fetching' = 0
    /\ hpc' = "idle"
    /\ UNCHANGED <<charset, peeked, scan, parser, result>>
    /\ UNCHANGED cssVars
    /\ UNCHANGED <<default_style_sheet, web, links, page_rules, node_style, log, net>>
    /\ UNCHANGED layoutVars

NextVisits == LoadPage \/ Cascade \/ LayoutPage \/ Visit

SpecVisits == InitVisits /\ [][NextVisits]_vars

-----------------------------------------------------------------------------
(* The parsed tree *)

Nodes == 1..Len(parser.nodes)
Children(n) == parser.nodes[n].children
Parent(n) == parser.nodes[n].parent
Tag(n) == parser.nodes[n].tag
IsElement(n, tag) == parser.nodes[n].kind = "element" /\ Tag(n) = tag

\* How often node n occurs in the children list of node m.
Occurrences(m, n) == Cardinality({i \in 1..Len(Children(m)) : Children(m)[i] = n})

\* The nodes met by following parent links from n, n included, in at most
\* k steps.
RECURSIVE Ancestors(_, _)
Ancestors(n, k) ==
    IF n = None \/ k = 0 THEN {} ELSE {n} \cup Ancestors(Parent(n), k - 1)

Occurs(c) == \E i \in 1..Len(html) : html[i] = c

-----------------------------------------------------------------------------
(* C1 *)

-----------------------------------------------------------------------------
(* C2 *)

\* The step of parse that handles the ">" of a closing tag whose name is the
\* tag of no unfinished element.
UnmatchedClosingTagStep ==
    /\ hpc = "scan" /\ hpc' = "scan"
    /\ html' = Append(html, ">")
    /\ StartsWith(scan.tag_name, "/")
    /\ \A i \in 1..Len(parser.unfinished) :
         Tag(parser.unfinished[i]) # Tail(scan.tag_name)

\* C2: a closing tag whose name matches no element on the unfinished-element
\* stack is ignored: the stack and the tree built so far are the same after
\* the tag as before it.
C2_UnmatchedClosingIgnored ==
    [][UnmatchedClosingTagStep => parser' = parser]_vars

-----------------------------------------------------------------------------
(* C3 *)

\* C3: after parse, the result is a well-formed tree: the root has no
\* parent and is in no children list, every other node occurs exactly once
\* in exactly one children list, the list of its parent back-reference, and
\* following parent links from any node ends at the root (no cycle).
C3_WellFormedTree ==
    hpc = "done" =>
      /\ parser.root = None => parser.nodes = <<>>
      /\ parser.root # None =>
           /\ Parent(parser.root) = None
           /\ \A m \in Nodes : Occurrences(m, parser.root) = 0
           /\ \A n \in Nodes \ {parser.root} :
                /\ Parent(n) # None
                /\ Occurrences(Parent(n), n) = 1
                /\ \A m \in Nodes \ {Parent(n)} : Occurrences(m, n) = 0
                /\ parser.root \in Ancestors(n, Len(parser.nodes))

\* parse has returned a tree in which an element opened after the root was
\* closed (the node parse returns) hangs under that root, with a text node
\* below: </html>p.
C3_Witness ==
    /\ hpc = "done"
    /\ result # None
    /\ result # parser.root
    /\ Parent(result) = parser.root
    /\ \E n \in Nodes : parser.nodes[n].kind = "text"

-----------------------------------------------------------------------------
(* C4 *)

\* The step of parse that reaches the end of the markup.
EndOfInputStep == hpc = "scan" /\ hpc' = "done"

\* C4: at the end of input every element still unfinished is closed last
\* opened first and attached to its parent (it becomes the last child of the
\* element opened before it; the first opened becomes the root, or the last
\* child of the root there already is), so that on return the stack is
\* empty, one node has no parent, the root, and every node is reachable
\* from it.
C4_FinishClosesAll ==
    /\ [][EndOfInputStep =>
            LET p == _flush_pending(scan, parser)
            IN  \A i \in 1..Len(p.unfinished) :
                  LET below == IF i > 1 THEN p.unfinished[i - 1] ELSE p.root
                  IN  IF below # None
                      THEN /\ Last(parser'.nodes[below].children) = p.unfinished[i]
                           /\ parser'.nodes[p.unfinished[i]].parent = below
                      ELSE parser'.root = p.unfinished[i]]_vars
    /\ [](hpc = "done" =>
            /\ parser.unfinished = <<>>
            /\ parser.nodes # <<>> =>
                 /\ parser.root # None
                 /\ {n \in Nodes : Parent(n) = None} = {parser.root}
                 /\ \A n \in Nodes : parser.root \in Ancestors(n, Len(parser.nodes)))

\* parse has returned from markup without any closing tag that left three
\* elements, one inside the other, unfinished at the end of input: <p>.
C4_Witness ==
    /\ hpc = "done"
    /\ ~Occurs("/")
    /\ parser.unfinished = <<>>
    /\ \E n \in Nodes :
         /\ parser.nodes[n].kind = "element"
         /\ Parent(n) # None
         /\ Parent(Parent(n)) = parser.root

-----------------------------------------------------------------------------
(* C5 *)

\* C5: parse handles every malformed input locally: for every markup the
\* scan completes and returns without raising an error to the caller.
C5_NeverRaises == hpc # "raised"

-----------------------------------------------------------------------------
(* What a stylesheet says, read off its text: the text up to each "}" is a
   rule, and in a declaration block the text up to each ";" is a
   declaration. *)

IsName(w) == Len(w) > 0 /\ \A i \in 1..Len(w) : IsWordChar(w[i])

\* The words of a selector text: its pieces between spaces.
SelectorWords(head) == SelectSeq(Split(head, " "), LAMBDA w : w # <<>>)

DeclarationParts(piece) == Split(Strip(piece), ":")
WellFormedDeclaration(piece) ==
    /\ Len(DeclarationParts(piece)) = 2
    /\ IsName(Strip(DeclarationParts(piece)[1]))
    /\ IsName(Strip(DeclarationParts(piece)[2]))
DeclaredProperty(piece) == Lower(Strip(DeclarationParts(piece)[1]))
DeclaredValue(piece) == Strip(DeclarationParts(piece)[2])

\* The name a declaration text starts with, spaces skipped.
LeadingWord(piece) ==
    LET t == LStrip(piece, " ") IN Lower(SubSeq(t, 1, WordEnd(t, 0)))

\* A block of declarations, each but the last ended by ";".
WellFormedBlock(block) ==
    LET pieces == Split(block, ";")
    IN  /\ \A i \in 1..(Len(pieces) - 1) : WellFormedDeclaration(pieces[i])
        /\ WellFormedDeclaration(Last(pieces)) \/ Strip(Last(pieces)) = <<>>

RECURSIVE DeclaredPairs(_)
DeclaredPairs(pieces) ==
    IF pieces = <<>> THEN <<>>
    ELSE IF ~WellFormedDeclaration(Last(pieces)) THEN DeclaredPairs(Front(pieces))
    ELSE SetItem(DeclaredPairs(Front(pieces)),
                 DeclaredProperty(Last(pieces)), DeclaredValue(Last(pieces)))

\* The text of a rule without its "}": a selector, "{" and a block.
RuleHead(chunk) == Head(Split(chunk, "{"))
RuleBlock(chunk) == SubSeq(chunk, Len(RuleHead(chunk)) + 2, Len(chunk))
WellFormedRule(chunk) ==
    /\ \E i \in 1..Len(chunk) : chunk[i] = "{"
    /\ SelectorWords(RuleHead(chunk)) # <<>>
    /\ \A i \in 1..Len(SelectorWords(RuleHead(chunk))) :
         IsName(SelectorWords(RuleHead(chunk))[i])
    /\ WellFormedBlock(RuleBlock(chunk))

RECURSIVE SelectorOf(_)
SelectorOf(words) ==
    IF Len(words) = 1 THEN SimpleSelector(Lower(words[1]))
    ELSE DescendantSelector(SelectorOf(Front(words)), SimpleSelector(Lower(Last(words))))

RuleOf(chunk) ==
    [selector |-> SelectorOf(SelectorWords(RuleHead(chunk))),
     body |-> DeclaredPairs(Split(RuleBlock(chunk), ";"))]

\* The rules of a sheet: its texts up to each "}" (what follows the last "}"
\* is no rule).
RuleTexts(src) == Front(Split(src, "}"))

\* The well-formed rules of a sheet that come after a malformed one.
RECURSIVE RulesAfterMalformed(_, _)
RulesAfterMalformed(chunks, seenMalformed) ==
    IF chunks = <<>> THEN <<>>
    ELSE IF ~WellFormedRule(Head(chunks)) THEN RulesAfterMalformed(Tail(chunks), TRUE)
    ELSE (IF seenMalformed THEN <<RuleOf(Head(chunks))>> ELSE <<>>)
         \o RulesAfterMalformed(Tail(chunks), seenMalformed)

\* a is b with some of its elements left out.
RECURSIVE IsSubsequence(_, _)
IsSubsequence(a, b) ==
    IF a = <<>> THEN TRUE
    ELSE IF b = <<>> THEN FALSE
    ELSE IF Head(a) = Head(b) THEN IsSubsequence(Tail(a), Tail(b))
    ELSE IsSubsequence(a, Tail(b))

\* The declarations of a block: the texts between the ";" up to the first "}".
DeclarationTexts(src) == Split(Head(Split(src, "}")), ";")

-----------------------------------------------------------------------------
(* C6 *)

\* C6: parse_css and parse_rule_body terminate on every input and never
\* propagate a ParsingError: the read index never passes the end of the
\* source, every round of the loop of parse_css and of the loop of
\* parse_rule_body either advances the read index or leaves the loop, and
\* what parse_css does after a declaration block never moves the index back.
C6_LoopsAdvance ==
    /\ cpc # "raised"
    /\ _index <= Len(source)
    /\ (cpc = "css" /\ _is_not_finished(source, _index)) =>
         LET r == CssRoundResult(source, _index)
         IN  r.cpc = "done" \/ (r.cpc \in {"css", "body"} /\ r.index > _index)
    /\ (cpc = "body" /\ BodyLoopCondition(source, _index)) =>
         LET r == BodyRound(source, _index, pairs)
         IN  ~r.raised /\ (~r.again \/ r.index > _index)
    /\ (cpc \in {"body", "body_exit"} /\ entry = "parse_css") =>
         CssRoundEnd(source, _index, selector, pairs, rules).index >= _index

\* parse_css has read to the end of a sheet that holds a malformed rule and
\* has returned two rules.
C6_Witness ==
    /\ cpc = "done"
    /\ entry = "parse_css"
    /\ _index = Len(source)
    /\ \E i \in 1..Len(RuleTexts(source)) : ~WellFormedRule(RuleTexts(source)[i])
    /\ Len(rules) >= 2

-----------------------------------------------------------------------------
(* C7 *)

\* C7: one malformed rule never aborts parsing of the rest of the sheet:
\* every well-formed rule that comes after a malformed rule is in the list
\* parse_css returns, with its selector and its declarations, in the order
\* of the sheet.
C7_RulesAfterMalformedKept ==
    (cpc = "done" /\ entry = "parse_css") =>
       IsSubsequence(RulesAfterMalformed(RuleTexts(source), FALSE), rules)

\* parse_css has returned from a sheet in which two well-formed rules, the
\* second with a declaration, follow a malformed rule.
C7_Witness ==
    /\ cpc = "done"
    /\ entry = "parse_css"
    /\ Len(RulesAfterMalformed(RuleTexts(source), FALSE)) = 2
    /\ RulesAfterMalformed(RuleTexts(source), FALSE)[2].body # <<>>

-----------------------------------------------------------------------------
(* C8 *)

\* A well-formed declaration of the block that follows a malformed one.
FollowsMalformed(pieces, i) ==
    /\ WellFormedDeclaration(pieces[i])
    /\ \E j \in 1..(i - 1) : ~WellFormedDeclaration(pieces[j])

\* C8: in a declaration block, every well-formed declaration that follows a
\* malformed one is recorded in the mapping parse_rule_body returns: its
\* property is a key, with its value unless a later declaration of the
\* block names the same property.
C8_DeclarationsAfterMalformedKept ==
    (cpc = "done" /\ entry = "parse_rule_body") =>
       LET pieces == DeclarationTexts(source)
       IN  \A i \in 1..Len(pieces) :
             FollowsMalformed(pieces, i) =>
               /\ DeclaredProperty(pieces[i]) \in DOMAIN pairs
               /\ (\A j \in (i + 1)..Len(pieces) :
                      LeadingWord(pieces[j]) # DeclaredProperty(pieces[i]))
                  => pairs[DeclaredProperty(pieces[i])] = DeclaredValue(pieces[i])

\* parse_rule_body has returned from a block in which a well-formed
\* declaration follows two malformed ones, and has recorded it.
C8_Witness ==
    /\ cpc = "done"
    /\ entry = "parse_rule_body"
    /\ \E i \in 3..Len(DeclarationTexts(source)) :
         /\ FollowsMalformed(DeclarationTexts(source), i)
         /\ \A j \in 1..(i - 1) : ~WellFormedDeclaration(DeclarationTexts(source)[j])
         /\ pairs[DeclaredProperty(DeclarationTexts(source)[i])]
              = DeclaredValue(DeclarationTexts(source)[i])

-----------------------------------------------------------------------------
(* C9 *)

\* Rule i of the list load_page has put together matches node n and sets
\* property.
Sets(i, n, property) ==
    /\ matches(page_rules[i].selector, parser.nodes, n)
    /\ property \in DOMAIN page_rules[i].body

\* The style attribute of node n declares property.
InlineSets(n, property) ==
    /\ parser.nodes[n].kind = "element"
    /\ <<"style">> \in DOMAIN parser.nodes[n].attributes
    /\ property \in DOMAIN parse_rule_body(
                              OrEmpty(parser.nodes[n].attributes[<<"style">>])).pairs

\* Nothing but rule j can give node n its value of property: no rule of a
\* higher priority and no later rule of the same priority sets it at n, the
\* style attribute of n does not declare it, and the value is not a
\* font-size in percent, which style rewrites.
Decides(j, n, property) ==
    /\ Sets(j, n, property)
    /\ ~\E k \in 1..Len(page_rules) :
          /\ Sets(k, n, property)
          /\ \/ cascade_priority(page_rules[k]) > cascade_priority(page_rules[j])
             \/ /\ cascade_priority(page_rules[k]) = cascade_priority(page_rules[j])
                /\ k > j
    /\ ~InlineSets(n, property)
    /\ ~(property = <<"font-size">> /\ EndsWith(page_rules[j].body[property], "%"))

\* C9: the list load_page puts together starts with the rules of the default
\* sheet, and once style has run, for every node and every two rules of equal
\* priority that both match the node and set the same property, the value
\* of the node is the value of the one that is later in that list (when no
\* other rule, no style attribute and no percentage comes after them).
C9_TieInRuleOrder ==
    /\ bpc \in {"fetch", "styled"} =>
         /\ Len(default_style_sheet) <= Len(page_rules)
         /\ SubSeq(page_rules, 1, Len(default_style_sheet)) = default_style_sheet
    /\ bpc = "styled" =>
         \A n \in DOMAIN node_style : \A i, j \in 1..Len(page_rules) :
           \A property \in DOMAIN page_rules[j].body :
             ( /\ i < j
               /\ cascade_priority(page_rules[i]) = cascade_priority(page_rules[j])
               /\ Sets(i, n, property)
               /\ Decides(j, n, property) )
             => node_style[n][property] = page_rules[j].body[property]

\* C9, witness: a rule of the default sheet and a rule of a linked sheet, of
\* equal priority, give a node two different values of a property, and the
\* node has the value of the linked sheet.
C9_Witness ==
    /\ bpc = "styled"
    /\ \E n \in DOMAIN node_style : \E i, j \in 1..Len(page_rules) :
         \E property \in DOMAIN page_rules[j].body :
           /\ i <= Len(default_style_sheet)
           /\ Len(default_style_sheet) < j
           /\ cascade_priority(page_rules[i]) = cascade_priority(page_rules[j])
           /\ Sets(i, n, property)
           /\ Decides(j, n, property)
           /\ page_rules[i].body[property] # page_rules[j].body[property]
           /\ node_style[n][property] = page_rules[j].body[property]

-----------------------------------------------------------------------------
(* C10 *)

\* C10: once style has run, for every node and every two rules of different
\* priority that both match the node and set the same property, wherever
\* the two stand in the list load_page has put together, the value of the
\* node is the value of the rule of the higher priority (when no other rule,
\* no style attribute and no percentage comes after it); and the priorities
\* are 1 for a tag, 10 for a class and sums for sequences and descendants.
C10_HigherPriorityWins ==
    /\ \A i \in 1..Len(page_rules) :
         LET sel == page_rules[i].selector
         IN  /\ sel.type = "tag" => priority(sel) = 1
             /\ sel.type = "class" => priority(sel) = 10
             /\ sel.type \in {"sequence", "descendant"} =>
                  priority(sel) = SumOf([k \in 1..Len(sel.parts) |-> priority(sel.parts[k])])
    /\ bpc = "styled" =>
         \A n \in DOMAIN node_style : \A i, j \in 1..Len(page_rules) :
           \A property \in DOMAIN page_rules[j].body :
             ( /\ cascade_priority(page_rules[i]) < cascade_priority(page_rules[j])
               /\ Sets(i, n, property)
               /\ Decides(j, n, property) )
             => node_style[n][property] = page_rules[j].body[property]

\* C10, witness: a class rule of the default sheet stands before a tag rule
\* of a linked sheet, the two give a node different values of a property,
\* and the node has the value of the class rule.
C10_Witness ==
    /\ bpc = "styled"
    /\ \E n \in DOMAIN node_style : \E i, j \in 1..Len(page_rules) :
         \E property \in DOMAIN page_rules[i].body :
           /\ i <= Len(default_style_sheet)
           /\ Len(default_style_sheet) < j
           /\ page_rules[i].selector.type = "class"
           /\ page_rules[j].selector.type = "tag"
           /\ Sets(j, n, property)
           /\ Decides(i, n, property)
           /\ page_rules[i].body[property] # page_rules[j].body[property]
           /\ node_style[n][property] = page_rules[i].body[property]

-----------------------------------------------------------------------------
(* C11 *)

\* What the markup says the inline style of its paragraph is: the text
\* between the quotes of the style attribute, read as declarations.
StyleAttributeText(markup) ==
    LET open == CHOOSE i \in 1..Len(markup) :
                    /\ i > 2
                    /\ markup[i - 2] = "style" /\ markup[i - 1] = "=" /\ markup[i] = "\""
        close == CHOOSE j \in (open + 1)..Len(markup) :
                    /\ markup[j] = "\""
                    /\ \A k \in (open + 1)..(j - 1) : markup[k] # "\""
    IN  SubSeq(markup, open + 1, close - 1)
InlineDeclared(markup) == DeclaredPairs(Split(StyleAttributeText(markup), ";"))

-----------------------------------------------------------------------------
(* C12 *)

\* Rule j is the last of the matching rules to be laid over node n for
\* property: no rule of a higher priority and no later rule of the same
\* priority sets it at n.
LastToSet(j, n, property) ==
    /\ Sets(j, n, property)
    /\ ~\E k \in 1..Len(page_rules) :
          /\ Sets(k, n, property)
          /\ \/ cascade_priority(page_rules[k]) > cascade_priority(page_rules[j])
             \/ /\ cascade_priority(page_rules[k]) = cascade_priority(page_rules[j])
                /\ k > j

\* The value the parent of node n hands down: its resolved value, or the
\* default at the root.
Inherited(n, property) ==
    IF Parent(n) # None THEN node_style[Parent(n)][property]
    ELSE INHERITED_PROPERTIES[property]

\* The font-size of node n after the rules and the style attribute have been
\* laid over the inherited one, before a percentage is resolved.
OverlaidFontSize(n) ==
    IF InlineSets(n, <<"font-size">>)
    THEN parse_rule_body(OrEmpty(parser.nodes[n].attributes[<<"style">>])).pairs[<<"font-size">>]
    ELSE IF \E j \in 1..Len(page_rules) : LastToSet(j, n, <<"font-size">>)
    THEN page_rules[CHOOSE j \in 1..Len(page_rules) :
                        LastToSet(j, n, <<"font-size">>)].body[<<"font-size">>]
    ELSE Inherited(n, <<"font-size">>)

\* A size written as a number followed by px, and the number, in
\* hundredths.
IsPx(size) ==
    /\ Len(size) > 2
    /\ SubSeq(size, Len(size) - 1, Len(size)) = <<"p", "x">>
    /\ float(SubSeq(size, 1, Len(size) - 2)).ok
Hundredths(number) == float(number).value \div 100

\* C12: once style has run no node has a font-size in percent, and a node
\* whose font-size after the rules and the style attribute is N% under a
\* parent size in px (the default 16px at the root) has the size
\* parent * N / 100 in px.
C12_PercentageOfParent ==
    bpc = "styled" =>
        \A n \in DOMAIN node_style :
            /\ ~EndsWith(node_style[n][<<"font-size">>], "%")
            /\ ( /\ EndsWith(OverlaidFontSize(n), "%")
                 /\ float(Front(OverlaidFontSize(n))).ok
                 /\ IsPx(Inherited(n, <<"font-size">>)) )
               => /\ IsPx(node_style[n][<<"font-size">>])
                  /\ LET size == node_style[n][<<"font-size">>]
                         parent_size == Inherited(n, <<"font-size">>)
                     IN  Hundredths(SubSeq(size, 1, Len(size) - 2)) * 10000
                           = Hundredths(SubSeq(parent_size, 1, Len(parent_size) - 2))
                               * Hundredths(Front(OverlaidFontSize(n)))

\* C12, witness: a node whose font-size was 50% under a parent of 20px has
\* the size 10px, written 10.0px.
C12_Witness ==
    /\ bpc = "styled"
    /\ \E n \in DOMAIN node_style :
         /\ OverlaidFontSize(n) = <<"5", "0", "%">>
         /\ Inherited(n, <<"font-size">>) = <<"2", "0", "p", "x">>
         /\ node_style[n][<<"font-size">>] = <<"1", "0", ".", "0", "p", "x">>

-----------------------------------------------------------------------------
(* C13 *)

FiveInherited ==
    {<<"font-family">>, <<"font-size">>, <<"font-style">>, <<"font-weight">>, <<"color">>}

\* Some rule matching node n, or the style attribute of n, sets property.
Overridden(n, property) ==
    \/ \E j \in 1..Len(page_rules) : Sets(j, n, property)
    \/ InlineSets(n, property)

\* C13: once style has run, the style of every node holds the five
\* inherited properties, each with the value handed down by the parent (the
\* default at the root) unless a matching rule or the style attribute of the
\* node set it, and holds another property only if a matching rule or the
\* style attribute of the node set it.
C13_StyleMapContents ==
    bpc = "styled" =>
        \A n \in DOMAIN node_style :
            /\ FiveInherited \subseteq DOMAIN node_style[n]
            /\ \A property \in FiveInherited :
                 ~Overridden(n, property) =>
                     node_style[n][property] = Inherited(n, property)
            /\ \A property \in DOMAIN node_style[n] \ FiveInherited :
                 Overridden(n, property)

\* C13, witness: a node has a background-color from a rule and its child has
\* none, and a node has, set by nothing, a color from its parent that is
\* not the default.
C13_Witness ==
    /\ bpc = "styled"
    /\ \E n \in DOMAIN node_style :
         /\ <<"background-color">> \in DOMAIN node_style[n]
         /\ \E c \in DOMAIN node_style :
              Parent(c) = n /\ <<"background-color">> \notin DOMAIN node_style[c]
    /\ \E n \in DOMAIN node_style :
         /\ ~Overridden(n, <<"color">>)
         /\ Parent(n) # None
         /\ node_style[n][<<"color">>] = node_style[Parent(n)][<<"color">>]
         /\ node_style[n][<<"color">>] # INHERITED_PROPERTIES[<<"color">>]

-----------------------------------------------------------------------------
(* C14 *)

\* Rule i of the list load_page has put together comes from the default
\* sheet; the others come from linked sheets.
FromDefaultSheet(i) == i <= Len(default_style_sheet)

\* The place rule i has in the list passed to style: behind the rules of a
\* lower priority and the earlier rules of the same priority.
PlacePassed(i) ==
    1 + Cardinality({k \in 1..Len(page_rules) :
          \/ cascade_priority(page_rules[k]) < cascade_priority(page_rules[i])
          \/ /\ cascade_priority(page_rules[k]) = cascade_priority(page_rules[i])
             /\ k < i})

\* C14 as stated: in the list passed to style every rule of the default
\* sheet stands before every rule of a linked sheet, and a rule of a linked
\* sheet that matches a node overrides every rule of the default sheet that
\* sets the same property.
C14_DefaultSheetLowest ==
    bpc = "styled" =>
        \A i, j \in 1..Len(page_rules) :
            (FromDefaultSheet(i) /\ ~FromDefaultSheet(j)) =>
                /\ PlacePassed(i) < PlacePassed(j)
                /\ \A n \in DOMAIN node_style :
                     \A property \in DOMAIN page_rules[j].body :
                       ( /\ Sets(i, n, property)
                         /\ Sets(j, n, property)
                         /\ ~\E k \in 1..Len(page_rules) :
                               ~FromDefaultSheet(k) /\ k # j /\ Sets(k, n, property)
                         /\ ~InlineSets(n, property) )
                       => node_style[n][property] = page_rules[j].body[property]

\* C14, amended: the list load_page puts together starts with the rules of
\* the default sheet; in the list passed to style, which is that list sorted
\* by priority, a rule of the default sheet stands before every rule of a
\* linked sheet whose priority is not lower; and a rule of a linked sheet
\* that nothing of a higher priority or later place overrides gives a node
\* its value against every matching rule of the default sheet.
C14_DefaultSheetLowestAmongEquals ==
    /\ bpc \in {"fetch", "styled"} =>
         \A i \in 1..Len(default_style_sheet) :
             i <= Len(page_rules) /\ page_rules[i] = default_style_sheet[i]
    /\ bpc = "styled" =>
         /\ \A i \in 1..Len(page_rules) :
              sorted(page_rules)[PlacePassed(i)] = page_rules[i]
         /\ \A i, j \in 1..Len(page_rules) :
              ( /\ FromDefaultSheet(i) /\ ~FromDefaultSheet(j)
                /\ cascade_priority(page_rules[i]) <= cascade_priority(page_rules[j]) )
              => /\ PlacePassed(i) < PlacePassed(j)
                 /\ \A n \in DOMAIN node_style :
                      \A property \in DOMAIN page_rules[j].body :
                        (Sets(i, n, property) /\ Decides(j, n, property))
                        => node_style[n][property] = page_rules[j].body[property]

\* C14, witness: a tag rule of the default sheet and a class rule of a
\* linked sheet give a node different values of a property; the default
\* rule is passed to style before the linked one and the node has the value
\* of the linked one.
C14_Witness ==
    /\ bpc = "styled"
    /\ \E n \in DOMAIN node_style : \E i, j \in 1..Len(page_rules) :
         \E property \in DOMAIN page_rules[j].body :
           /\ FromDefaultSheet(i) /\ ~FromDefaultSheet(j)
           /\ cascade_priority(page_rules[i]) < cascade_priority(page_rules[j])
           /\ PlacePassed(i) < PlacePassed(j)
           /\ Sets(i, n, property)
           /\ Decides(j, n, property)
           /\ page_rules[i].body[property] # page_rules[j].body[property]
           /\ node_style[n][property] = page_rules[j].body[property]

-----------------------------------------------------------------------------
(* C15 *)

\* The width a word of the line was measured with.
PlacedWidth(entry_of_line) == measure(entry_of_line.font, entry_of_line.word)

-----------------------------------------------------------------------------
(* Layout and paint of a page *)

\* The width the window had at the last layout of the document.
LaidOutWidth == document.width + 2 * WINDOW_H_MARGIN + SCROLLBAR_WIDTH

\* A first layout of the styled tree at the given width, on a document box
\* made for it; only the count of the layouts is that of the page's
\* document, so that the boxes can be compared with their stamps.
FirstPass(width) ==
    DocumentLayout_layout([DocumentLayout(parser.root) EXCEPT
                             !.layouts = document.layouts - 1],
                          parser.nodes, node_style, width).document

\* C16: after any sequence of layout and paint passes at any widths, the
\* display list and the whole layout tree are those of a first pass at the
\* last width on the same styled tree: nothing of an earlier pass is left.
C16_LayoutIsPureInWidth ==
    bpc = "drawn" =>
        /\ document = FirstPass(LaidOutWidth)
        /\ display_list = DocumentLayout_paint(FirstPass(LaidOutWidth), parser.nodes,
                                               node_style, <<>>)

\* A third pass, back at the first width after a pass at another width,
\* with backgrounds in the display list.
C16_Witness ==
    /\ bpc = "drawn"
    /\ document.layouts = 3
    /\ LaidOutWidth = 800
    /\ _previous_window_width = 800
    /\ Len(display_list) >= 2

\* The words of the page in document order, and the Text commands of the
\* display list.
PageWords ==
    LET items == _render_tree(parser.nodes, parser.root)
        IsWord(item) == item.kind = "word"
        found == SelectSeq(items, IsWord)
    IN  [i \in 1..Len(found) |-> found[i].word]
TextCommands ==
    LET IsText(command) == command.type = "text"
    IN  SelectSeq(display_list, IsText)

\* C17: when load_page has ended on a page with words, the display list has
\* one Text command per word, in document order; for <p>Hello world</p>
\* with an empty default stylesheet at width 800 the Text of "world" is to
\* the right of that of "Hello".
C17_OneTextPerWord ==
    (bpc \in {"drawn", "raised"} /\ PageWords # <<>>) =>
        /\ Len(TextCommands) = Len(PageWords)
        /\ \A i \in 1..Len(PageWords) : TextCommands[i].text = PageWords[i]
        /\ (html = HelloPage /\ default_style_sheet = <<>> /\ LaidOutWidth = 800) =>
               TextCommands[1].left < TextCommands[2].left

\* C18: after any number of layouts of the document, also one that raised,
\* the document box has exactly one child, the box of the root node, and it
\* is the box the last call of DocumentLayout.layout made.
C18_OneChildOfLastLayout ==
    document # NoDocument =>
        /\ document.layouts >= 1
        /\ Len(document.children) = 1
        /\ document.children[1].html_node = parser.root
        /\ document.children[1].made = document.layouts

\* The document after the load and two layouts at new widths.
C18_Witness ==
    /\ bpc = "drawn"
    /\ document.layouts = MaxLayouts
    /\ Len(document.children) = 1
    /\ document.children[1].children # <<>>
    /\ LaidOutWidth = 400

\* The boxes of the layout tree under box b, b first, each box before its
\* descendants and the descendants of a box before its next sibling.
RECURSIVE BoxesFrom(_)
BoxesFrom(b) ==
    <<b>> \o Flatten([i \in 1..Len(b.children) |-> BoxesFrom(b.children[i])])

\* The resolved background-color of the node of box b; a node without one
\* is transparent.
BackgroundOf(b) ==
    IF Get(node_style[b.html_node], <<"background-color">>) = NoValue
    THEN <<"transparent">>
    ELSE Get(node_style[b.html_node], <<"background-color">>)

\* What one box puts into the display list: the Rect of its bounds when its
\* background is not transparent, then the commands of its own lines.
EmittedBy(b) ==
    (IF BackgroundOf(b) # <<"transparent">>
     THEN <<[type |-> "rect", top |-> b.y, left |-> b.x, bottom |-> b.y + b.height,
             right |-> b.x + b.width, color |-> BackgroundOf(b)]>>
     ELSE <<>>)
    \o b.display_list

\* C19: the display list of a painted page is, box after box from the root
\* down, one Rect with the bounds of each box whose background is not
\* transparent, followed by the commands of the box's own lines and then by
\* what its descendants emit; a box with a transparent background emits no
\* Rect.
C19_RectBeforeContents ==
    bpc = "drawn" =>
        LET boxes == BoxesFrom(document.children[1])
        IN  display_list = Flatten([i \in 1..Len(boxes) |-> EmittedBy(boxes[i])])

\* A painted page with a coloured box, 700 high, around a coloured box, and
\* a coloured box below it.
C19_Witness ==
    /\ bpc = "drawn"
    /\ Len(display_list) = 3
    /\ display_list[1].color = <<"red">>
    /\ display_list[2].color = <<"blue">>
    /\ display_list[1].bottom = display_list[1].top + 700
    /\ display_list[2].top = display_list[1].top
    /\ display_list[3].top = display_list[1].bottom

\* A step of the scroll handler, and a step of the resize handler that gets
\* a new width above 1.
ScrollStep == _on_scroll \/ scroll' # scroll
ResizeToNewWidth ==
    /\ _on_resize
    /\ window_width' > 1
    /\ window_width' # _previous_window_width

\* C20: a scroll changes nothing but the scroll offset and the canvas, which
\* is drawn again from the same display list and layout tree at the new
\* offset; a resize to a new width above 1 lays the document out once more at
\* that width, with new boxes, and replaces the display list by the paint of
\* the new tree.
C20_ScrollDrawsResizeLaysOut ==
    [][/\ ScrollStep =>
            /\ UNCHANGED <<document, display_list, window_width, _previous_window_width>>
            /\ canvas' = draw(display_list, scroll', document, window_width, <<>>).canvas
       /\ ResizeToNewWidth =>
            /\ document'.layouts = document.layouts + 1
            /\ document'.width = window_width' - 2 * WINDOW_H_MARGIN - SCROLLBAR_WIDTH
            /\ document'.children[1].made = document'.layouts
            /\ display_list' = DocumentLayout_paint(document', parser.nodes, node_style, <<>>)
            /\ UNCHANGED scroll]_vars

\* A page laid out again at another width and then scrolled: the canvas
\* shows the first command one step higher than the display list has it.
C20_Witness ==
    /\ bpc = "drawn"
    /\ document.layouts = 2
    /\ LaidOutWidth = 400
    /\ scroll = SCROLL_STEP
    /\ display_list # <<>>
    /\ canvas # <<>>
    /\ canvas[1].type = "rect"
    /\ canvas[1].y = display_list[1].top - SCROLL_STEP

-----------------------------------------------------------------------------
(* Failures of load_page *)

\* The links whose fetch raised, as the log has them, and the links whose
\* stylesheet was fetched, in the order of the page.
FailedLinks == {log[i][2] : i \in {k \in 1..Len(log) : log[k][1] = RetrieveError(<<>>)[1]}}
FetchedLinks ==
    LET done == SubSeq(links, 1, fetching)
        Fetched(link) == link \notin FailedLinks
    IN  SelectSeq(done, Fetched)
RulesOfFetched ==
    default_style_sheet
    \o Flatten([i \in 1..Len(FetchedLinks) |-> parse_css(web[FetchedLinks[i]]).rules])

\* C21: load_page never ends at a failed fetch: it is at its loop, at the
\* cascade or at the layout until the page is drawn.  The rules gathered are
\* those of the default stylesheet followed by those of every sheet whose
\* fetch did not fail, in the order of the links; the styles are the cascade
\* of these rules; and the page drawn is laid out once and painted with them.
C21_FailedFetchIsSkipped ==
    /\ bpc \in {"start", "fetch", "styled", "drawn"}
    /\ bpc = "fetch" => fetching <= Len(links)
    /\ bpc \in {"fetch", "styled", "drawn"} => page_rules = RulesOfFetched
    /\ bpc \in {"styled", "drawn"} =>
           /\ fetching = Len(links)
           /\ node_style = style(parser.nodes, parser.root, sorted(RulesOfFetched),
                                 <<>>).styles
    /\ bpc = "drawn" =>
           /\ document.layouts = 1
           /\ display_list = DocumentLayout_paint(document, parser.nodes,
                                                  node_style, <<>>)

\* The fetch of the first sheet failed, the second sheet painted the
\* paragraph; and the other way round.
C21_Witness ==
    /\ bpc = "drawn"
    /\ FailedLinks = {<<"a">>}
    /\ web[<<"a">>] # <<>>
    /\ web[<<"b">>] # <<>>
    /\ default_style_sheet # <<>>
    /\ Len(page_rules) = 2
    /\ Len(display_list) = 2

\* A step of load_page that finds the parser without a root.
LoadsNoRoot == bpc = "start" /\ bpc' # "start" /\ parser'.root = None

\* C22: a load whose markup leaves the parser without a root logs one
\* error and returns: no rules are gathered, no style is computed, and the
\* document, the display list, the canvas and the scroll offset are those
\* of before the call; nothing follows but the next call of load_page,
\* which likewise leaves them as they are.
C22_EmptyTreeLeavesPage ==
    [][/\ LoadsNoRoot =>
            /\ log' = Append(log, EmptyTreeError)
            /\ bpc' = "done"
            /\ UNCHANGED <<document, display_list, canvas, scroll,
                           _previous_window_width, page_rules, links, node_style>>
       /\ bpc = "done" =>
            /\ parser.root = None
            /\ bpc' = "start"
            /\ UNCHANGED <<document, display_list, canvas, scroll, log>>]_vars

\* A page of a doctype only was loaded after a page with boxes, which is
\* still laid out and in the display list.
C22_Witness ==
    /\ bpc = "done"
    /\ html = DoctypePage
    /\ parser.root = None
    /\ log = <<EmptyTreeError>>
    /\ document # NoDocument
    /\ Len(display_list) >= 2
    /\ canvas # <<>>

-----------------------------------------------------------------------------
(* The geometry of the boxes *)

\* The boxes of the laid out document, the root's box first.
LaidOutBoxes == BoxesFrom(document.children[1])

\* The width style of the node of box b when it is given and not auto.
HasExplicit(b, property) ==
    /\ Get(node_style[b.html_node], <<property>>) # NoValue
    /\ Get(node_style[b.html_node], <<property>>) # <<"auto">>
ExplicitValue(b, property) == DigitsValue(Get(node_style[b.html_node], <<property>>))

\* Box b is placed as a box under parent after the box previous, or as the
\* first box under parent when previous is NoBox.
PlacedUnder(b, parent, previous) ==
    /\ b.x = parent.x
    /\ b.width = IF HasExplicit(b, "width") THEN ExplicitValue(b, "width")
                 ELSE parent.width
    /\ b.y = IF previous # NoBox THEN previous.y + previous.height ELSE parent.y

\* C23: in a laid out document every box has the x of its parent, the width
\* its node's style gives when it gives one other than auto and the width
\* of its parent otherwise, and its top at the bottom of the sibling box
\* before it, or at the top of its parent when it is the first.
C23_BoxesStack ==
    bpc = "drawn" =>
        /\ PlacedUnder(document.children[1], document, NoBox)
        /\ \A i \in 1..Len(LaidOutBoxes) :
             LET parent == LaidOutBoxes[i]
             IN  \A k \in 1..Len(parent.children) :
                     PlacedUnder(parent.children[k], parent,
                                 IF k = 1 THEN NoBox ELSE parent.children[k - 1])

\* A box 700 high with a sibling below it, under a box of width 50 in a
\* document 759 wide.
C23_Witness ==
    /\ bpc = "drawn"
    /\ document.width = 759
    /\ \E i \in 1..Len(LaidOutBoxes) :
         LET parent == LaidOutBoxes[i]
         IN  /\ Len(parent.children) = 2
             /\ parent.children[1].height = 700
             /\ parent.children[2].y = parent.children[1].y + 700
    /\ \E i \in 1..Len(LaidOutBoxes) :
         LET parent == LaidOutBoxes[i]
         IN  /\ parent.width = 759
             /\ Len(parent.children) = 2
             /\ parent.children[1].width = 50
             /\ parent.children[1].children # <<>>
             /\ parent.children[1].children[1].width = 50
             /\ parent.children[2].width = 759

\* The child nodes of the node of box b that are not elements of the hidden
\* set, in document order.
ShownChildren(b) ==
    LET Shown(n) == ~(parser.nodes[n].kind = "element"
                      /\ parser.nodes[n].tag \in HIDDEN_ELEMENTS)
    IN  SelectSeq(parser.nodes[b.html_node].children, Shown)

\* C24: in a laid out document a box in block mode has one child box for
\* each child node of its node that is not of the hidden set, in document
\* order, and no box for a child node of the hidden set.
C24_NoBoxForHiddenChild ==
    bpc = "drawn" =>
        \A i \in 1..Len(LaidOutBoxes) :
            LET b == LaidOutBoxes[i]
            IN  get_layout_mode(parser.nodes, b.html_node) = "block" =>
                    [k \in 1..Len(b.children) |-> b.children[k].html_node]
                        = ShownChildren(b)

\* The sum of the heights of the child boxes of box b.
ChildrenHeight(b) == SumOf([k \in 1..Len(b.children) |-> b.children[k].height])

\* C25: in a laid out document the height of every box in block mode is the
\* sum of the heights of its child boxes, 0 without any, whether or not the
\* style of its node gives a height.
C25_BlockHeightIsSum ==
    bpc = "drawn" =>
        \A i \in 1..Len(LaidOutBoxes) :
            LET b == LaidOutBoxes[i]
            IN  get_layout_mode(parser.nodes, b.html_node) = "block" =>
                    b.height = ChildrenHeight(b)

\* A box in block mode whose style gives the height 30 and whose children
\* are 700 high together, and one without children whose height is 0.
C25_Witness ==
    /\ bpc = "drawn"
    /\ \E i \in 1..Len(LaidOutBoxes) :
         LET b == LaidOutBoxes[i]
         IN  /\ get_layout_mode(parser.nodes, b.html_node) = "block"
             /\ HasExplicit(b, "height")
             /\ ExplicitValue(b, "height") = 30
             /\ Len(b.children) = 2
             /\ b.height = 700
    /\ \E i \in 1..Len(LaidOutBoxes) :
         LET b == LaidOutBoxes[i]
         IN  /\ get_layout_mode(parser.nodes, b.html_node) = "block"
             /\ b.children = <<>>
             /\ b.height = 0

\* The boxes in inline mode of the laid out document.
InlineBoxes ==
    LET Inline(b) == get_layout_mode(parser.nodes, b.html_node) = "inline"
    IN  SelectSeq(LaidOutBoxes, Inline)

\* C26 as stated: in a laid out document the height of every box in inline
\* mode is the final value of its cursor_y.
C26_InlineHeightIsCursor ==
    bpc = "drawn" =>
        \A i \in 1..Len(InlineBoxes) : InlineBoxes[i].height = InlineBoxes[i].cursor_y

\* C26: in a laid out document the height of a box in inline mode is the
\* height its node's style gives, when it gives one that is not auto and
\* not 0, and the final value of its cursor_y otherwise.
C26_InlineHeightIsCursorUnlessExplicit ==
    bpc = "drawn" =>
        \A i \in 1..Len(InlineBoxes) :
            LET b == InlineBoxes[i]
            IN  b.height = IF HasExplicit(b, "height") /\ ExplicitValue(b, "height") # 0
                           THEN ExplicitValue(b, "height")
                           ELSE b.cursor_y

\* A page with a box in inline mode whose style gives the height 700 and
\* whose cursor is at 0, after a box in block mode.
C26_Witness ==
    /\ bpc = "drawn"
    /\ Len(InlineBoxes) = 1
    /\ HasExplicit(InlineBoxes[1], "height")
    /\ InlineBoxes[1].height = 700
    /\ InlineBoxes[1].cursor_y = 0
    /\ InlineBoxes[1]._line = <<>>

-----------------------------------------------------------------------------
(* The lines of a box in inline mode *)

\* A step that flushes the line of the box: at a br element, and at the end
\* of the layout of the box.
FlushesLine ==
    /\ lpc = "render"
    /\ to_render = <<>> \/ Head(to_render).kind = "br"

\* The baseline of the pending line of the box, and the cursor below it.
LineAscent == Max({metrics(box._line[i].font, "ascent") : i \in 1..Len(box._line)})
LineDescent == Max({metrics(box._line[i].font, "descent") : i \in 1..Len(box._line)})
LineBaseline == box.cursor_y + (5 * LineAscent) \div 4

\* C27: a flush of a line with words ends without an error, adds to the
\* display list of the box one Text command per word of the line, in order,
\* at left = box.x + the x of the word and top = box.y + baseline - the
\* word's ascent, where baseline = cursor_y + 1.25 * the largest ascent of
\* the line; it moves cursor_y to baseline + 1.25 * the largest descent,
\* cursor_x to 0, and empties the line.  A flush of an empty line leaves
\* the display list, the cursor and the line as they are.
C27_FlushEmitsLine ==
    [][FlushesLine =>
         IF box._line = <<>>
         THEN /\ box'.display_list = box.display_list
              /\ box'.cursor_x = box.cursor_x
              /\ box'.cursor_y = box.cursor_y
              /\ box'._line = <<>>
         ELSE /\ lpc' # "raised"
              /\ Len(box'.display_list) = Len(box.display_list) + Len(box._line)
              /\ \A i \in 1..Len(box._line) :
                   LET command == box'.display_list[Len(box.display_list) + i]
                   IN  /\ command.type = "text"
                       /\ command.text = box._line[i].word
                       /\ command.left = box.x + box._line[i].relative_x
                       /\ command.top = box.y + LineBaseline
                                        - metrics(box._line[i].font, "ascent")
              /\ box'.cursor_y = LineBaseline + (5 * LineDescent) \div 4
              /\ box'.cursor_x = 0
              /\ box'._line = <<>>]_vars

\* Node n is node e or lies under it.
RECURSIVE IsWithin(_, _)
IsWithin(n, e) ==
    IF n = e THEN TRUE
    ELSE IF parser.nodes[n].parent = None THEN FALSE
    ELSE IsWithin(parser.nodes[n].parent, e)

\* The text node a word of the page comes from; the words of these pages
\* differ from each other.
NodeOfWord(word) ==
    LET items == _render_tree(parser.nodes, parser.root)
    IN  items[CHOOSE i \in 1..Len(items) : items[i].kind = "word" /\ items[i].word = word].node

\* Between the nodes n and m, both walked from node top, lies the boundary
\* of a block element: one that is under top and holds one of them but not
\* the other.
BoundaryBetween(n, m, top) ==
    \E e \in 1..Len(parser.nodes) :
        /\ e # top
        /\ IsWithin(e, top)
        /\ is_block_element(parser.nodes, e)
        /\ IsWithin(n, e) # IsWithin(m, e)

\* C28: no box in inline mode ever has on its pending line two words with
\* the boundary of a block element between them: the line is flushed at the
\* boundary.
C28_BoundaryBreaksLine ==
    document # NoDocument =>
        \A k \in 1..Len(LaidOutBoxes) :
            LET b == LaidOutBoxes[k]
            IN  \A i, j \in 1..Len(b._line) :
                    i < j => ~BoundaryBetween(NodeOfWord(b._line[i].word),
                                              NodeOfWord(b._line[j].word), b.html_node)

-----------------------------------------------------------------------------
(* The repair loop of _handle_implicit_tags, one round at a time *)

\* ImplicitTags that closes the head for a head-only tag as well.
ImplicitTags_CloseHeadAlways(p, tag_name) ==
    IF Len(p.unfinished) = 0 /\ tag_name # <<"html">>
    THEN << <<"html">> >>
    ELSE IF /\ Len(p.unfinished) = 1
            /\ p.nodes[p.unfinished[1]].tag = <<"html">>
            /\ tag_name \notin {<<"head">>, <<"body">>, <<"/", "html">>}
    THEN << ImplicitOpen(tag_name) >>
    ELSE IF /\ Len(p.unfinished) = 2
            /\ p.nodes[p.unfinished[1]].tag = <<"html">>
            /\ p.nodes[p.unfinished[2]].tag = <<"head">>
            /\ tag_name # <<"/", "head">>
    THEN << <<"/", "head">> >>
    ELSE <<>>

\* One round of the while of _handle_implicit_tags: the tag the round hands
\* to _add_tag, or nothing when the round breaks out of the loop.
ImplicitTags(p, tag_name) ==
    IF Len(p.unfinished) = 0 /\ tag_name # <<"html">>
    THEN << <<"html">> >>
    ELSE IF /\ Len(p.unfinished) = 1
            /\ p.nodes[p.unfinished[1]].tag = <<"html">>
            /\ tag_name \notin {<<"head">>, <<"body">>, <<"/", "html">>}
    THEN << ImplicitOpen(tag_name) >>
    ELSE IF /\ Len(p.unfinished) = 2
            /\ p.nodes[p.unfinished[1]].tag = <<"html">>
            /\ p.nodes[p.unfinished[2]].tag = <<"head">>
            /\ tag_name \notin ({<<"/", "head">>} \cup HEAD_TAGS)
    THEN << <<"/", "head">> >>
    ELSE <<>>

\* The most rounds of the loop that add a tag, for one call.
MaxImplicitSteps == 2

\* The loop run for at most fuel rounds: the parser before each round that
\* added a tag, the tag it added, the parser the run stopped in, and whether
\* it stopped because a round broke out of the loop.
RECURSIVE ImplicitRun(_, _, _)
ImplicitRun(p, tag_name, fuel) ==
    LET added == ImplicitTags(p, tag_name)
    IN  IF added = <<>>
        THEN [steps |-> <<>>, p |-> p, broke |-> TRUE]
        ELSE IF fuel = 0
        THEN [steps |-> <<>>, p |-> p, broke |-> FALSE]
        ELSE LET rest == ImplicitRun(_add_tag(p, added[1], <<>>), tag_name, fuel - 1)
             IN  [rest EXCEPT !.steps = <<[p |-> p, tag |-> added[1]]>> \o rest.steps]

\* What _handle_implicit_tags is called with: no tag for a text, or the name
\* of a tag that does not start with "!".
IncomingTags ==
    {NoTag, <<>>}
        \cup {<<c>> : c \in {"html", "head", "body", "script", "link", "p"}}
        \cup {<<"/", c>> : c \in {"html", "head", "body", "script", "p"}}

\* C29: from every stack of unfinished elements the parser reaches, and for
\* every incoming tag name or text, the loop of _handle_implicit_tags breaks
\* after at most MaxImplicitSteps rounds that add a tag; the call _add_tag
\* makes to _handle_implicit_tags for an added tag adds nothing itself; the
\* parser the loop stops in is what _handle_implicit_tags returns, no round
\* would change it, and its stack is not empty unless the incoming tag is an
\* opening html.
C29_RepairReachesFixedPoint ==
    \A tag_name \in IncomingTags :
        LET run == ImplicitRun(parser, tag_name, MaxImplicitSteps + 1)
        IN  /\ run.broke
            /\ Len(run.steps) <= MaxImplicitSteps
            /\ \A i \in 1..Len(run.steps) :
                   ImplicitTags(run.steps[i].p, run.steps[i].tag) = <<>>
            /\ run.p = _handle_implicit_tags(parser, tag_name)
            /\ _handle_implicit_tags(run.p, tag_name) = run.p
            /\ (Len(run.p.unfinished) = 0 => tag_name = <<"html">>)

\* The head is open and a paragraph comes in: the loop closes the head and
\* opens the body, two rounds, and stops with html and body unfinished.
C29_Witness ==
    /\ Len(parser.unfinished) = 2
    /\ parser.nodes[parser.unfinished[2]].tag = <<"head">>
    /\ LET run == ImplicitRun(parser, <<"p">>, MaxImplicitSteps + 1)
       IN  /\ run.broke
           /\ Len(run.steps) = 2
           /\ run.steps[1].tag = <<"/", "head">>
           /\ run.steps[2].tag = <<"body">>
           /\ Len(run.p.unfinished) = 2
           /\ run.p.nodes[run.p.unfinished[2]].tag = <<"body">>

-----------------------------------------------------------------------------
(* The character data of the markup *)

\* The texts of the Text nodes of the parsed tree, in document order.
TextsOf(p) ==
    IF p.root = None
    THEN <<>>
    ELSE LET walk == tree_to_list(p.nodes, p.root)
             texts == SelectSeq(walk, LAMBDA n : p.nodes[n].kind = "text")
         IN  [i \in 1..Len(texts) |-> p.nodes[texts[i]].text]

\* A markup that opens no tag and no character reference: all of it is one
\* run of characters outside tags.
IsCharacterData(markup) ==
    /\ markup # <<>>
    /\ ~Contains(markup, "<")
    /\ ~Contains(markup, "&")

\* C30: no character data is lost by the scan; in particular, when the
\* markup is one run of characters outside tags that is not whitespace only,
\* the parsed tree holds exactly one Text node, and its text is that run: a
\* ">" in the run neither discards the text before it nor creates an element.
C30_NoCharacterDataLost ==
    (hpc = "done" /\ IsCharacterData(html) /\ ~IsSpace(html)) =>
        /\ TextsOf(parser) = <<html>>
        /\ \A n \in 1..Len(parser.nodes) :
               parser.nodes[n].kind = "element" =>
                   parser.nodes[n].tag \in {<<"html">>, <<"body">>}

-----------------------------------------------------------------------------
(* The range of the scroll offset *)

\* The largest offset that still shows the end of the document: what is
\* left of its height below one window, and 0 for a document that fits.
ScrollRange ==
    IF document.height - WindowHeight > 0 THEN document.height - WindowHeight ELSE 0

\* C31: once a page is loaded and drawn, whatever scroll and resize events
\* follow, the scroll offset is at least 0 and at most the height of the
\* document less the height of the window, or 0 when the document fits.
C31_ScrollWithinPage ==
    (bpc = "drawn" /\ document # NoDocument) =>
        /\ 0 <= scroll
        /\ scroll <= ScrollRange

-----------------------------------------------------------------------------
(* baby_browser/networking.py: fetch *)

\* The URLs of the servers, each the text of an absolute URL, and what a
\* Location header holds besides: nothing (no header, or an empty one), or
\* a reference without a scheme, which parse_url cannot split at ":".
URLs == {"a", "b"}
NoLocation == "None"
NoScheme == "/"
NoResponse == <<>>

\* HttpResponse, with max_age for the max-age of its cache-control header
\* (0 without one) and cache_expiration for whether write_cache has set it.
HttpResponse(status_code, location, max_age) ==
    [status_code |-> status_code, location |-> location, max_age |-> max_age,
     cache_expiration |-> FALSE]

is_redirect(response) == response.status_code >= 300 /\ response.status_code < 400
ok(response) == response.status_code < 400

\* What a server answers a request with.
Responses ==
    {HttpResponse(200, NoLocation, m) : m \in {0, 60}}
        \cup {HttpResponse(301, l, m) : l \in URLs \cup {NoLocation, NoScheme}, m \in {0, 60}}
        \cup {HttpResponse(302, l, 0) : l \in URLs \cup {NoLocation, NoScheme}}
        \cup {HttpResponse(404, NoLocation, 0)}

\* The values of max_redirects fetch is called with: small ones and the
\* default; and the number of calls of fetch.
MaxRedirects == 2
DefaultMaxRedirects == 5
RedirectLimits == (0..MaxRedirects) \cup {DefaultMaxRedirects}
MaxFetches == 2

\* _fetch_inner that follows a redirect when the count has reached the limit.
FollowsRedirect_OneMore(response, max_redirects, redirects_count) ==
    is_redirect(response) /\ max_redirects > 0 /\ redirects_count <= max_redirects

\* _fetch_inner: whether it looks at the Location header of the response.
FollowsRedirect(response, max_redirects, redirects_count) ==
    is_redirect(response) /\ max_redirects > 0 /\ redirects_count < max_redirects

\* _fetch_inner: whether the response is written to the cache.
IsCached(response) ==
    /\ ~response.cache_expiration
    /\ response.max_age > 0
    /\ response.status_code \in {200, 301, 404}

\* The servers are up, the cache folder is empty, fetch was not called.
InitFetch ==
    /\ CssIdle
    /\ LayoutIdle
    /\ charset = {}
    /\ html = <<>>
    /\ peeked = EOF
    /\ scan = NewScan
    /\ parser = NewParser
    /\ hpc = "idle"
    /\ result = None
    /\ default_style_sheet = <<>>
    /\ web = <<>>
    /\ links = <<>>
    /\ fetching = 0
    /\ page_rules = <<>>
    /\ node_style = <<>>
    /\ bpc = "idle"
    /\ log = <<>>
    /\ \E server \in [URLs -> Responses] :
           net = [server |-> server,
                  cache |-> [u \in URLs |-> NoResponse],
                  npc |-> "idle",
                  url |-> "a",
                  max_redirects |-> 0,
                  redirects_count |-> 0,
                  response |-> NoResponse,
                  obtained |-> <<>>,
                  requests |-> 0,
                  calls |-> 0,
                  fetches |-> 0]

\* fetch: the first call of _fetch_inner is about to be made.
fetch ==
    /\ net.npc \in {"idle", "returned", "raised"}
    /\ net.fetches < MaxFetches
    /\ \E url \in URLs, max_redirects \in RedirectLimits :
           net' = [net EXCEPT !.npc = "inner",
                              !.url = url,
                              !.max_redirects = max_redirects,
                              !.redirects_count = 0,
                              !.response = NoResponse,
                              !.obtained = <<>>,
                              !.requests = 0,
                              !.calls = 0,
                              !.fetches = net.fetches + 1]
    /\ UNCHANGED <<htmlVars, cssVars, layoutVars>>
    /\ UNCHANGED <<default_style_sheet, web, links, fetching, page_rules,
                   node_style, bpc, log>>

\* One call of _fetch_inner, up to the call it makes of itself or to its
\* return: the response is read from the cache when it is there and has not
\* expired, and asked of the server otherwise; a status of 400 and above
\* raises; the response is cached when its headers say so; a redirect is
\* followed while the count is below max_redirects.
_fetch_inner ==
    /\ net.npc = "inner"
    /\ LET cached == net.cache[net.url]
       IN  \E expired \in IF cached = NoResponse THEN {TRUE} ELSE BOOLEAN :
           LET read == IF expired THEN NoResponse ELSE cached
               unlinked == [net.cache EXCEPT ![net.url] = read]
               received == IF read # NoResponse THEN read ELSE net.server[net.url]
               requests == net.requests + (IF read # NoResponse THEN 0 ELSE 1)
               response == IF ok(received) /\ IsCached(received)
                           THEN [received EXCEPT !.cache_expiration = TRUE]
                           ELSE received
               cache == IF ok(received) /\ IsCached(received)
                        THEN [unlinked EXCEPT ![net.url] = response]
                        ELSE unlinked
               called == [net EXCEPT !.cache = cache,
                                     !.response = response,
                                     !.obtained = Append(net.obtained, response),
                                     !.requests = requests,
                                     !.calls = net.calls + 1]
           IN  net' =
                 IF ~ok(received)
                 THEN [called EXCEPT !.npc = "raised"]
                 ELSE IF /\ FollowsRedirect(response, net.max_redirects, net.redirects_count)
                         /\ response.location # NoLocation
                 THEN IF response.location = NoScheme
                      THEN [called EXCEPT !.npc = "raised"]
                      ELSE [called EXCEPT !.url = response.location,
                                          !.redirects_count = net.redirects_count + 1]
                 ELSE [called EXCEPT !.npc = "returned"]
    /\ UNCHANGED <<htmlVars, cssVars, layoutVars>>
    /\ UNCHANGED <<default_style_sheet, web, links, fetching, page_rules,
                   node_style, bpc, log>>

NextFetch == fetch \/ _fetch_inner

SpecFetch == InitFetch /\ [][NextFetch]_vars

=============================================================================
